---- MODULE Spec2Model ----
(***************************************************************************)
(* EDI 850 -> ERP integration pipeline: the segment tokenizer and document *)
(* parser (backend/edi_parser/parser.py), the schema mapper                *)
(* (backend/transformer/mapper.py), the business rule validator            *)
(* (backend/mock_erp_api/endpoints.py) and the pipeline orchestrator       *)
(* (backend/processor/orchestrator.py).                                    *)
(*                                                                         *)
(* Text is a sequence of one-character strings, so that strip(), split()   *)
(* and the numeric conversions are computed and not assumed.  Messages     *)
(* built by the code with f-strings are TLA+ strings built with \o.        *)
(***************************************************************************)
EXTENDS Integers, Sequences, FiniteSets, TLC

(***************************************************************************)
(* Text helpers (Python str methods used by the parser and the mapper)     *)
(***************************************************************************)

\* Characters str.strip() removes.
IsSpace(c) == c \in {" ", "\n", "\t", "\r"}

RECURSIVE lstrip(_)
lstrip(s) == IF s # <<>> /\ IsSpace(Head(s)) THEN lstrip(Tail(s)) ELSE s

RECURSIVE rstrip(_)
rstrip(s) ==
    IF s # <<>> /\ IsSpace(s[Len(s)]) THEN rstrip(SubSeq(s, 1, Len(s) - 1)) ELSE s

\* str.strip()
strip(s) == rstrip(lstrip(s))

\* str.split(delim) for a one-character delimiter: one piece more than there
\* are delimiters, each piece the text between two neighbouring delimiters.
split(s, delim) ==
    LET at == { i \in 1..Len(s) : s[i] = delim }
        \* position of the k-th delimiter; 0 and Len(s) + 1 close the text
        cut(k) == IF k = 0 THEN 0
                  ELSE IF k > Cardinality(at) THEN Len(s) + 1
                  ELSE CHOOSE i \in at : Cardinality({ j \in at : j <= i }) = k
    IN  [ k \in 1..(Cardinality(at) + 1) |-> SubSeq(s, cut(k - 1) + 1, cut(k) - 1) ]

\* str(x) of a text value: the TLA+ string with the same characters.
RECURSIVE Join(_)
Join(cs) == IF cs = <<>> THEN "" ELSE Head(cs) \o Join(Tail(cs))

\* Python None, and a present optional text value.
None == [some |-> FALSE, v |-> <<>>]
Some(t) == [some |-> TRUE, v |-> t]

(***************************************************************************)
(* Segment tokenizer and document parser (EDI850Parser)                    *)
(***************************************************************************)

segment_delimiter == "~"
element_delimiter == "*"

RECURSIVE SegmentsOf(_)
SegmentsOf(segment_strings) ==
    IF segment_strings = <<>> THEN <<>>
    ELSE LET seg_str == strip(Head(segment_strings))
         IN  IF seg_str # <<>>
             THEN <<split(seg_str, element_delimiter)>> \o SegmentsOf(Tail(segment_strings))
             ELSE SegmentsOf(Tail(segment_strings))

\* EDI850Parser._split_segments
split_segments(edi_content) ==
    SegmentsOf(split(strip(edi_content), segment_delimiter))

find_first_only(segments, segment_id) ==
    LET found == SelectSeq(segments, LAMBDA seg : seg # <<>> /\ seg[1] = segment_id)
    IN  IF found = <<>> THEN <<>> ELSE <<Head(found)>>

\* EDI850Parser._find_all_segments
find_all_segments(segments, segment_id) ==
    SelectSeq(segments, LAMBDA seg : seg # <<>> /\ seg[1] = segment_id)

find_last_segment(segments, segment_id) ==
    LET found == find_all_segments(segments, segment_id)
    IN  IF found = <<>> THEN <<>> ELSE found[Len(found)]

\* EDI850Parser._find_segment: the first match, or None (here: the empty segment,
\* which split() never produces).
find_segment(segments, segment_id) ==
    LET found == find_all_segments(segments, segment_id)
    IN  IF found = <<>> THEN <<>> ELSE Head(found)

ISA_ID == <<"I","S","A">>
GS_ID  == <<"G","S">>
BEG_ID == <<"B","E","G">>
REF_ID == <<"R","E","F">>
N1_ID  == <<"N","1">>
PO1_ID == <<"P","O","1">>
CTT_ID == <<"C","T","T">>

\* Minimum element counts of the required and of the repeatable segments.
ISA_MIN == 17
GS_MIN  == 9
BEG_MIN == 6
CTT_MIN == 2
REF_MIN == 3
N1_MIN  == 3
PO1_MIN == 7

\* "not seg or len(seg) < n": the guard in front of each required segment.
Incomplete(seg, n) == seg = <<>> \/ Len(seg) < n

\* Element i of a Python list is seg[i + 1] here.
El(seg, i) == strip(seg[i + 1])

\* EDI850Parser._parse_isa
parse_isa(segments) ==
    LET isa == find_segment(segments, ISA_ID)
    IN  [ authorization_info       |-> El(isa, 2),
          security_info            |-> El(isa, 4),
          sender_id                |-> El(isa, 6),
          receiver_id              |-> El(isa, 8),
          date                     |-> El(isa, 9),
          time                     |-> El(isa, 10),
          control_number           |-> El(isa, 13),
          acknowledgment_requested |-> El(isa, 14),
          usage_indicator          |-> El(isa, 15) ]

\* EDI850Parser._parse_gs
parse_gs(segments) ==
    LET gs == find_segment(segments, GS_ID)
    IN  [ functional_id_code |-> El(gs, 1),
          sender_code        |-> El(gs, 2),
          receiver_code      |-> El(gs, 3),
          date               |-> El(gs, 4),
          time               |-> El(gs, 5),
          control_number     |-> El(gs, 6),
          responsible_agency |-> El(gs, 7),
          version            |-> El(gs, 8) ]

\* EDI850Parser._parse_beg
parse_beg(segments) ==
    LET beg == find_segment(segments, BEG_ID)
    IN  [ transaction_set_purpose |-> El(beg, 1),
          purchase_order_type     |-> El(beg, 2),
          purchase_order_number   |-> El(beg, 3),
          date                    |-> IF Len(beg) > 5 THEN El(beg, 5) ELSE <<>> ]

RECURSIVE MapRef(_)
MapRef(refs) ==
    IF refs = <<>> THEN <<>>
    ELSE LET ref == Head(refs)
         IN  IF Len(ref) >= REF_MIN
             THEN <<[ reference_qualifier |-> El(ref, 1),
                      reference_number    |-> El(ref, 2) ]>> \o MapRef(Tail(refs))
             ELSE MapRef(Tail(refs))

\* EDI850Parser._parse_ref
parse_ref(segments) == MapRef(find_all_segments(segments, REF_ID))

RECURSIVE MapN1(_)
MapN1(n1s) ==
    IF n1s = <<>> THEN <<>>
    ELSE LET n1 == Head(n1s)
         IN  IF Len(n1) >= N1_MIN
             THEN <<[ entity_identifier |-> El(n1, 1),
                      name              |-> El(n1, 2),
                      identification_code_qualifier |->
                          IF Len(n1) > 3 THEN Some(El(n1, 3)) ELSE None,
                      identification_code |->
                          IF Len(n1) > 4 THEN Some(El(n1, 4)) ELSE None ]>>
                  \o MapN1(Tail(n1s))
             ELSE MapN1(Tail(n1s))

\* EDI850Parser._parse_n1
parse_n1(segments) == MapN1(find_all_segments(segments, N1_ID))

RECURSIVE MapPO1(_)
MapPO1(po1s) ==
    IF po1s = <<>> THEN <<>>
    ELSE LET po1 == Head(po1s)
         IN  IF Len(po1) >= PO1_MIN
             THEN <<[ line_number          |-> El(po1, 1),
                      quantity             |-> El(po1, 2),
                      unit_of_measure      |-> El(po1, 3),
                      unit_price           |-> El(po1, 4),
                      product_id_qualifier |-> IF Len(po1) > 6 THEN El(po1, 6) ELSE <<>>,
                      product_id           |-> IF Len(po1) > 7 THEN El(po1, 7) ELSE <<>>,
                      description          |->
                          IF Len(po1) > 9 THEN Some(El(po1, 9)) ELSE None ]>>
                  \o MapPO1(Tail(po1s))
             ELSE MapPO1(Tail(po1s))

\* EDI850Parser._parse_po1
parse_po1(segments) == MapPO1(find_all_segments(segments, PO1_ID))

\* EDI850Parser._parse_ctt
parse_ctt(segments) ==
    LET ctt == find_segment(segments, CTT_ID)
    IN  [ line_item_count |-> El(ctt, 1),
          hash_total      |-> IF Len(ctt) > 2 THEN Some(El(ctt, 2)) ELSE None ]

SE_ID  == <<"S","E">>
GE_ID  == <<"G","E">>
IEA_ID == <<"I","E","A">>
TRAILER_MIN == 3

\* The two entries one control trailer adds to the control dict, when it is
\* present with at least three elements.
TrailerFields(segments, segment_id, first_key, second_key) ==
    LET seg == find_segment(segments, segment_id)
    IN  IF seg # <<>> /\ Len(seg) >= TRAILER_MIN
        THEN << <<first_key, El(seg, 1)>>, <<second_key, El(seg, 2)>> >>
        ELSE <<>>

\* EDI850Parser._parse_control_trailers: the dict as its items, in insertion
\* order.
parse_control_trailers(segments) ==
    TrailerFields(segments, SE_ID, "se_segment_count", "se_control_number")
    \o TrailerFields(segments, GE_ID, "ge_transaction_count", "ge_control_number")
    \o TrailerFields(segments, IEA_ID, "iea_group_count", "iea_control_number")

RequiredSegmentErrorUnnamed(segments) ==
    IF Incomplete(find_segment(segments, ISA_ID), ISA_MIN)
       \/ Incomplete(find_segment(segments, GS_ID), GS_MIN)
       \/ Incomplete(find_segment(segments, BEG_ID), BEG_MIN)
       \/ Incomplete(find_segment(segments, CTT_ID), CTT_MIN)
    THEN "required segment not found or incomplete"
    ELSE ""

RequiredSegmentErrorLast(segments) ==
    IF Incomplete(find_segment(segments, CTT_ID), CTT_MIN)
        THEN "CTT segment not found or incomplete"
    ELSE IF Incomplete(find_segment(segments, BEG_ID), BEG_MIN)
        THEN "BEG segment not found or incomplete"
    ELSE IF Incomplete(find_segment(segments, GS_ID), GS_MIN)
        THEN "GS segment not found or incomplete"
    ELSE IF Incomplete(find_segment(segments, ISA_ID), ISA_MIN)
        THEN "ISA segment not found or incomplete"
    ELSE ""

\* The EDIParsingError text of the first required segment that is missing or
\* short, in the order parse() calls _parse_isa, _parse_gs, _parse_beg,
\* _parse_ctt; "" when none is.
RequiredSegmentError(segments) ==
    IF Incomplete(find_segment(segments, ISA_ID), ISA_MIN)
        THEN "ISA segment not found or incomplete"
    ELSE IF Incomplete(find_segment(segments, GS_ID), GS_MIN)
        THEN "GS segment not found or incomplete"
    ELSE IF Incomplete(find_segment(segments, BEG_ID), BEG_MIN)
        THEN "BEG segment not found or incomplete"
    ELSE IF Incomplete(find_segment(segments, CTT_ID), CTT_MIN)
        THEN "CTT segment not found or incomplete"
    ELSE ""

\* EDI850Parser.parse: the parsed document, or EDIParsingError wrapping the
\* text of whatever was raised inside.
parse(edi_content) ==
    LET segments == split_segments(edi_content)
        err == RequiredSegmentError(segments)
    IN  IF err # ""
        THEN [ ok |-> FALSE, error |-> "Failed to parse EDI 850: " \o err ]
        ELSE [ ok |-> TRUE,
               data |-> [ isa_header     |-> parse_isa(segments),
                          gs_header      |-> parse_gs(segments),
                          beg_segment    |-> parse_beg(segments),
                          ref_segments   |-> parse_ref(segments),
                          n1_loops       |-> parse_n1(segments),
                          po1_line_items |-> parse_po1(segments),
                          ctt_segment    |-> parse_ctt(segments),
                          control_numbers |-> parse_control_trailers(segments) ] ]

(***************************************************************************)
(* Numeric conversions: float() and int() on text, round(x, 2)             *)
(* Amounts and quantities are kept in hundredths.                          *)
(***************************************************************************)

Digits == <<"0","1","2","3","4","5","6","7","8","9">>
DigitVal(c) == (CHOOSE i \in 1..Len(Digits) : Digits[i] = c) - 1
IsDigit(c) == \E i \in 1..Len(Digits) : Digits[i] = c
AllDigits(s) == \A i \in 1..Len(s) : IsDigit(s[i])

RECURSIVE NatVal(_)
NatVal(s) ==
    IF s = <<>> THEN 0 ELSE NatVal(SubSeq(s, 1, Len(s) - 1)) * 10 + DigitVal(s[Len(s)])

Unsigned(s) == IF s # <<>> /\ Head(s) \in {"+", "-"} THEN Tail(s) ELSE s
SignOf(s) == IF s # <<>> /\ Head(s) = "-" THEN -1 ELSE 1

\* int(text): succeeds on an optionally signed run of digits.
IntOk(s) == LET u == Unsigned(strip(s)) IN u # <<>> /\ AllDigits(u)
IntVal(s) == LET t == strip(s) IN SignOf(t) * NatVal(Unsigned(t))

\* float(text): succeeds on an optionally signed decimal literal.
FloatOk(s) ==
    LET parts == split(Unsigned(strip(s)), ".")
    IN  /\ Len(parts) \in {1, 2}
        /\ \A i \in 1..Len(parts) : AllDigits(parts[i])
        /\ \E i \in 1..Len(parts) : parts[i] # <<>>

\* The value of float(text) in hundredths (two fractional digits are kept).
FloatVal(s) ==
    LET t == strip(s)
        parts == split(Unsigned(t), ".")
        frac == IF Len(parts) = 2 THEN parts[2] ELSE <<>>
        frac2 == IF Len(frac) = 0 THEN 0
                 ELSE IF Len(frac) = 1 THEN DigitVal(frac[1]) * 10
                 ELSE DigitVal(frac[1]) * 10 + DigitVal(frac[2])
    IN  SignOf(t) * (NatVal(parts[1]) * 100 + frac2)

RoundProductTruncated(q, p) ==
    LET n == q * p
    IN  IF n < 0 THEN -((-n) \div 100) ELSE n \div 100

\* round(quantity * unit_price, 2) of two values in hundredths, in hundredths
\* (round half to even, as Python's round does on an exact tie).
RoundProduct(q, p) ==
    LET n == q * p
        a == IF n < 0 THEN -n ELSE n
        quot == a \div 100
        rem == a % 100
        r == IF rem > 50 \/ (rem = 50 /\ quot % 2 = 1) THEN quot + 1 ELSE quot
    IN  IF n < 0 THEN -r ELSE r

(***************************************************************************)
(* Schema mapper (ERPMapper)                                               *)
(***************************************************************************)

VN_CODE == <<"V","N">>
ST_CODE == <<"S","T">>
UNKNOWN_VENDOR   == <<"U","n","k","n","o","w","n"," ","V","e","n","d","o","r">>
UNKNOWN_LOCATION == <<"U","n","k","n","o","w","n"," ","L","o","c","a","t","i","o","n">>
UNKNOWN_ID       == <<"U","N","K","N","O","W","N">>

LastLoop(n1_loops, code) ==
    LET found == SelectSeq(n1_loops, LAMBDA n1 : n1.entity_identifier = code)
    IN  IF found = <<>> THEN <<>> ELSE found[Len(found)]

\* The first N1 loop with the given entity identifier, or <<>> (a record is
\* never <<>>).
FirstLoop(n1_loops, code) ==
    LET found == SelectSeq(n1_loops, LAMBDA n1 : n1.entity_identifier = code)
    IN  IF found = <<>> THEN <<>> ELSE Head(found)

\* ERPMapper._extract_vendor.  Every parsed loop carries the key
\* identification_code, so n1.get("identification_code", "UNKNOWN") is the
\* stored value, None included; the default applies to no parsed loop.
extract_vendor(n1_loops) ==
    LET n1 == FirstLoop(n1_loops, VN_CODE)
    IN  IF n1 # <<>>
        THEN [ vendor_id |-> n1.identification_code, vendor_name |-> n1.name ]
        ELSE [ vendor_id |-> Some(UNKNOWN_ID), vendor_name |-> UNKNOWN_VENDOR ]

\* ERPMapper._extract_ship_to
extract_ship_to(n1_loops) ==
    LET n1 == FirstLoop(n1_loops, ST_CODE)
    IN  IF n1 # <<>>
        THEN [ location_id |-> n1.identification_code, location_name |-> n1.name ]
        ELSE [ location_id |-> None, location_name |-> UNKNOWN_LOCATION ]

\* One iteration of the loop of ERPMapper._transform_line_items.
LineItem(po1) ==
    LET quantity == FloatVal(po1.quantity)
        unit_price == FloatVal(po1.unit_price)
    IN  [ line_number     |-> IntVal(po1.line_number),
          sku             |-> po1.product_id,
          description     |-> po1.description,
          quantity        |-> quantity,
          unit_price      |-> unit_price,
          unit_of_measure |-> po1.unit_of_measure,
          total_price     |-> RoundProduct(quantity, unit_price) ]

\* ERPMapper._transform_line_items
RECURSIVE transform_line_items(_)
transform_line_items(po1_items) ==
    IF po1_items = <<>> THEN <<>>
    ELSE <<LineItem(Head(po1_items))>> \o transform_line_items(Tail(po1_items))

RECURSIVE SumTotals(_)
SumTotals(line_items) ==
    IF line_items = <<>> THEN 0
    ELSE Head(line_items).total_price + SumTotals(Tail(line_items))

\* ERPMapper._calculate_total_amount: round(sum, 2) of values in hundredths.
calculate_total_amount(line_items) == SumTotals(line_items)

\* ERPMapper._map_po_type: PO_TYPE_MAP.get(code, code)
map_po_type(po_type_code) ==
    IF po_type_code = <<"N","E">> THEN <<"N","e","w"," ","O","r","d","e","r">> ELSE
    IF po_type_code = <<"R","E">> THEN <<"R","e","o","r","d","e","r">> ELSE
    IF po_type_code = <<"S","A">> THEN <<"S","t","a","n","d"," ","A","l","o","n","e">> ELSE
    IF po_type_code = <<"C","N">> THEN <<"C","o","n","f","i","r","m","a","t","i","o","n">> ELSE
    IF po_type_code = <<"R","L">> THEN <<"R","e","l","e","a","s","e">> ELSE
    po_type_code

format_date_from_eight(edi_date) ==
    IF Len(edi_date) >= 8
    THEN SubSeq(edi_date, 1, 4) \o <<"-">> \o SubSeq(edi_date, 5, 6) \o <<"-">>
         \o SubSeq(edi_date, 7, 8)
    ELSE edi_date

\* ERPMapper._format_date
format_date(edi_date) ==
    IF Len(edi_date) = 8
    THEN SubSeq(edi_date, 1, 4) \o <<"-">> \o SubSeq(edi_date, 5, 6) \o <<"-">>
         \o SubSeq(edi_date, 7, 8)
    ELSE edi_date

UPPER == <<"A","B","C","D","E","F","G","H","I","J","K","L","M","N","O","P","Q","R","S","T","U","V","W","X","Y","Z">>
LOWER == <<"a","b","c","d","e","f","g","h","i","j","k","l","m","n","o","p","q","r","s","t","u","v","w","x","y","z">>

\* str.lower()
lower(s) ==
    [ i \in 1..Len(s) |->
        IF \E k \in 1..Len(UPPER) : UPPER[k] = s[i]
        THEN LOWER[CHOOSE k \in 1..Len(UPPER) : UPPER[k] = s[i]]
        ELSE s[i] ]

\* qualifier_map.get(qualifier, qualifier.lower())
ReferenceKey(qualifier) ==
    IF qualifier = <<"D","P">> THEN <<"d","e","p","a","r","t","m","e","n","t">> ELSE
    IF qualifier = <<"C","O">> THEN <<"c","u","s","t","o","m","e","r","_","o","r","d","e","r">> ELSE
    IF qualifier = <<"C","R">> THEN <<"c","u","s","t","o","m","e","r","_","r","e","f","e","r","e","n","c","e">> ELSE
    IF qualifier = <<"P","O">> THEN <<"p","r","e","v","i","o","u","s","_","p","o">> ELSE
    IF qualifier = <<"V","N">> THEN <<"v","e","n","d","o","r","_","o","r","d","e","r">> ELSE
    lower(qualifier)

\* references[key] = number on a dict kept as a sequence of <<key, value>> in
\* insertion order.
DictPut(d, key, value) ==
    IF \E i \in 1..Len(d) : d[i][1] = key
    THEN [ i \in 1..Len(d) |-> IF d[i][1] = key THEN <<key, value>> ELSE d[i] ]
    ELSE Append(d, <<key, value>>)

RECURSIVE References(_, _)
References(ref_segments, references) ==
    IF ref_segments = <<>> THEN references
    ELSE LET ref == Head(ref_segments)
         IN  References(Tail(ref_segments),
                        DictPut(references, ReferenceKey(ref.reference_qualifier),
                                ref.reference_number))

\* ERPMapper._build_reference_numbers: None when there are no references.
build_reference_numbers(ref_segments) ==
    LET references == References(ref_segments, <<>>)
    IN  IF references # <<>> THEN [some |-> TRUE, v |-> references] ELSE None

\* The text of the first exception raised inside the loop of
\* _transform_line_items ("" when there is none): float(quantity), then
\* float(unit_price), then int(line_number), item after item.
RECURSIVE LineItemsError(_)
LineItemsError(po1_items) ==
    IF po1_items = <<>> THEN ""
    ELSE LET po1 == Head(po1_items)
         IN  IF ~FloatOk(po1.quantity)
             THEN "could not convert string to float: '" \o Join(po1.quantity) \o "'"
             ELSE IF ~FloatOk(po1.unit_price)
             THEN "could not convert string to float: '" \o Join(po1.unit_price) \o "'"
             ELSE IF ~IntOk(po1.line_number)
             THEN "invalid literal for int() with base 10: '" \o Join(po1.line_number) \o "'"
             ELSE LineItemsError(Tail(po1_items))

\* The text of the first exception raised inside transform(), in the order of
\* its statements: ERPVendor rejects a vendor_id of None (vendor_id: str), then
\* the line items.  "" when nothing is raised.
TransformFault(parsed_edi) ==
    IF ~extract_vendor(parsed_edi.n1_loops).vendor_id.some
    THEN "1 validation error for ERPVendor vendor_id"
    ELSE LineItemsError(parsed_edi.po1_line_items)

transform_declared_count(parsed_edi) ==
    LET fault == TransformFault(parsed_edi) IN
    IF fault # ""
    THEN [ ok |-> FALSE,
           error |-> "Failed to transform EDI to ERP schema: " \o fault ]
    ELSE LET line_items == transform_line_items(parsed_edi.po1_line_items)
             beg == parsed_edi.beg_segment
         IN  [ ok |-> TRUE,
               data |-> [ po_number   |-> beg.purchase_order_number,
                          po_date     |-> format_date(beg.date),
                          po_type     |-> map_po_type(beg.purchase_order_type),
                          vendor      |-> [ vendor_id |->
                                              extract_vendor(parsed_edi.n1_loops).vendor_id.v,
                                            vendor_name |->
                                              extract_vendor(parsed_edi.n1_loops).vendor_name ],
                          ship_to     |-> extract_ship_to(parsed_edi.n1_loops),
                          line_items  |-> line_items,
                          total_amount |-> calculate_total_amount(line_items),
                          total_lines |-> IntVal(parsed_edi.ctt_segment.line_item_count),
                          reference_numbers |->
                              build_reference_numbers(parsed_edi.ref_segments) ] ]

\* ERPMapper.transform: the payload, or TransformationError wrapping the text of
\* whatever was raised inside.
transform(parsed_edi) ==
    LET fault == TransformFault(parsed_edi) IN
    IF fault # ""
    THEN [ ok |-> FALSE,
           error |-> "Failed to transform EDI to ERP schema: " \o fault ]
    ELSE LET line_items == transform_line_items(parsed_edi.po1_line_items)
             beg == parsed_edi.beg_segment
         IN  [ ok |-> TRUE,
               data |-> [ po_number   |-> beg.purchase_order_number,
                          po_date     |-> format_date(beg.date),
                          po_type     |-> map_po_type(beg.purchase_order_type),
                          vendor      |-> [ vendor_id |->
                                              extract_vendor(parsed_edi.n1_loops).vendor_id.v,
                                            vendor_name |->
                                              extract_vendor(parsed_edi.n1_loops).vendor_name ],
                          ship_to     |-> extract_ship_to(parsed_edi.n1_loops),
                          line_items  |-> line_items,
                          total_amount |-> calculate_total_amount(line_items),
                          total_lines |-> Len(line_items),
                          reference_numbers |->
                              build_reference_numbers(parsed_edi.ref_segments) ] ]

(***************************************************************************)
(* Business rule validator (_validate_business_rules)                      *)
(***************************************************************************)

LineItemErrorsFirstOnly(line_items, idx) ==
    LET bad == { i \in idx..Len(line_items) : line_items[i].quantity <= 0 }
    IN  IF bad = {} THEN <<>>
        ELSE LET first == CHOOSE i \in bad : \A j \in bad : i <= j
             IN  <<"Line " \o ToString(first) \o ": Quantity must be greater than zero">>

\* Rule 4 for the items from position idx on.
RECURSIVE LineItemErrors(_, _)
LineItemErrors(line_items, idx) ==
    IF idx > Len(line_items) THEN <<>>
    ELSE LET item == line_items[idx]
             line == "Line " \o ToString(idx)
         IN  (IF item.quantity <= 0
                THEN <<line \o ": Quantity must be greater than zero">> ELSE <<>>)
             \o (IF item.unit_price < 0
                THEN <<line \o ": Unit price cannot be negative">> ELSE <<>>)
             \o (IF item.total_price < 0
                THEN <<line \o ": Total price cannot be negative">> ELSE <<>>)
             \o LineItemErrors(line_items, idx + 1)

validate_business_rules_negative_total(payload) ==
    (IF payload.total_amount < 0
        THEN <<"Total amount must be greater than zero">> ELSE <<>>)
    \o (IF payload.total_lines < 1
        THEN <<"Purchase order must contain at least one line item">> ELSE <<>>)
    \o (IF Len(payload.line_items) # payload.total_lines
        THEN <<"Line items count mismatch: expected " \o ToString(payload.total_lines)
               \o ", got " \o ToString(Len(payload.line_items))>> ELSE <<>>)
    \o LineItemErrors(payload.line_items, 1)
    \o (IF payload.vendor.vendor_name = <<>> \/ payload.vendor.vendor_name = UNKNOWN_VENDOR
        THEN <<"Valid vendor information is required">> ELSE <<>>)
    \o (IF payload.ship_to.location_name = <<>>
           \/ payload.ship_to.location_name = UNKNOWN_LOCATION
        THEN <<"Valid ship-to location is required">> ELSE <<>>)
    \o (IF payload.po_number = <<>> \/ strip(payload.po_number) = <<>>
        THEN <<"Purchase order number is required">> ELSE <<>>)

validate_business_rules(payload) ==
    (IF payload.total_amount <= 0
        THEN <<"Total amount must be greater than zero">> ELSE <<>>)
    \o (IF payload.total_lines < 1
        THEN <<"Purchase order must contain at least one line item">> ELSE <<>>)
    \o (IF Len(payload.line_items) # payload.total_lines
        THEN <<"Line items count mismatch: expected " \o ToString(payload.total_lines)
               \o ", got " \o ToString(Len(payload.line_items))>> ELSE <<>>)
    \o LineItemErrors(payload.line_items, 1)
    \o (IF payload.vendor.vendor_name = <<>> \/ payload.vendor.vendor_name = UNKNOWN_VENDOR
        THEN <<"Valid vendor information is required">> ELSE <<>>)
    \o (IF payload.ship_to.location_name = <<>>
           \/ payload.ship_to.location_name = UNKNOWN_LOCATION
        THEN <<"Valid ship-to location is required">> ELSE <<>>)
    \o (IF payload.po_number = <<>> \/ strip(payload.po_number) = <<>>
        THEN <<"Purchase order number is required">> ELSE <<>>)

(***************************************************************************)
(* Downstream acceptance endpoint (create_purchase_order)                  *)
(***************************************************************************)

\* random.randint(1000, 9999): the two ends of the range.
ErpIdSuffixes == {1000, 9999}

\* The ERPResponse of an accepted order, as the dict model_dump() returns.
ERPResponse(payload, suffix) ==
    [ success   |-> TRUE,
      message   |-> "Purchase order created successfully",
      erp_po_id |-> "ERP-" \o Join(payload.po_number) \o "-" \o ToString(suffix) ]

\* str(e) of the HTTPException create_purchase_order raises on a business rule
\* violation.
VALIDATION_REJECTION == "400: VALIDATION_ERROR Business rule validation failed"

create_purchase_order_timeout(payload, suffix) ==
    [ ok |-> FALSE, error |-> "504: TIMEOUT ERP system timeout - please retry" ]

\* create_purchase_order(payload, x_simulate_error=None): the same rule function
\* decides between the 400 rejection and the acceptance.
create_purchase_order(payload, suffix) ==
    IF validate_business_rules(payload) # <<>>
    THEN [ ok |-> FALSE, error |-> VALIDATION_REJECTION ]
    ELSE [ ok |-> TRUE, response |-> ERPResponse(payload, suffix) ]

\* str(e) of the failures of a downstream call that is not the in-process
\* endpoint: the four scenarios of _simulate_error and any other exception.
DownstreamFailures ==
    { "400: VALIDATION_ERROR Invalid purchase order format",
      "409: DUPLICATE_PO",
      "422: INVENTORY_UNAVAILABLE One or more items are out of stock",
      "504: TIMEOUT ERP system timeout - please retry",
      "Connection refused" }

(***************************************************************************)
(* Input documents                                                         *)
(***************************************************************************)

ENVELOPE ==
    <<"I","S","A","*","0","0","*","a","*","0","0","*","b","*","Z","Z","*","s","*","Z","Z","*","r","*","d","*","t","*","U","*","v","*","1","*","0","*","P","*",">","~","\n","G","S","*","P","O","*","s","*","r","*","d","*","t","*","1","*","X","*","v","~","\n","S","T","*","8","5","0","*","1","~">>
BEG_SEG ==
    <<"B","E","G","*","0","0","*","N","E","*","P","O","7","*","*","2","0","2","4","0","1","1","5","~">>
REF_SEG == <<"R","E","F","*","D","P","*","4","2","~">>
N1_VN == <<"N","1","*","V","N","*","A","c","m","e","*","9","2","*","V","1","~">>
N1_VN_SHORT == <<"N","1","*","V","N","*","A","c","m","e","~">>
N1_ST == <<"N","1","*","S","T","*"," ","D","o","c","k"," ","*","9","2","*","S","1","~">>
PO1_A == <<"P","O","1","*","1","*","2","*","E","A","*","3",".","5","0","*","*","B","P","*","S","K","U","1","~">>
PO1_B == <<"P","O","1","*","2","*","1","*","E","A","*","0",".","2","5","*","*","B","P","*","S","K","U","2","~">>
PO1_BADQTY == <<"P","O","1","*","1","*","x","*","E","A","*","3",".","5","0","*","*","B","P","*","S","K","U","1","~">>
CTT_1 == <<"C","T","T","*","1","~">>
TRAILER == <<"S","E","*","8","*","1","~","G","E","*","1","*","1","~","I","E","A","*","1","*","1","~","\n">>

\* The documents a run is started on: a complete order, one with two line
\* items, one without BEG, one with a non-numeric quantity, one with a vendor
\* loop without identification code, one without line items, one without
\* name/address loops.
Docs ==
    << ENVELOPE \o BEG_SEG \o REF_SEG \o N1_VN \o N1_ST \o PO1_A \o CTT_1 \o TRAILER,
       ENVELOPE \o BEG_SEG \o N1_VN \o N1_ST \o PO1_A \o PO1_B \o CTT_1 \o TRAILER,
       ENVELOPE \o N1_VN \o N1_ST \o PO1_A \o CTT_1 \o TRAILER,
       ENVELOPE \o BEG_SEG \o N1_VN \o N1_ST \o PO1_BADQTY \o CTT_1 \o TRAILER,
       ENVELOPE \o BEG_SEG \o N1_VN_SHORT \o N1_ST \o PO1_A \o CTT_1 \o TRAILER,
       ENVELOPE \o BEG_SEG \o N1_VN \o N1_ST \o CTT_1 \o TRAILER,
       ENVELOPE \o BEG_SEG \o PO1_A \o CTT_1 \o TRAILER >>

DocIds == DOMAIN Docs

(***************************************************************************)
(* Pipeline orchestrator (IntegrationOrchestrator)                         *)
(***************************************************************************)

\* Largest max_retries and retry_delay (seconds) an orchestrator is built with,
\* and the number of job-record store calls that fail during one run.
MaxRetriesBound == 3
MaxRetryDelay == 2
MaxStoreFaults == 2

StepNames == <<"parse", "transform", "validate", "post_to_erp">>

\* Python None for an error text and for a timestamp.
NoText == "<None>"
NoTime == -1

\* str(e) of the exception a failing job-record store call raises.
STORE_ERROR == "(sqlite3.OperationalError) database is locked"

VARIABLES
    pc,             \* position of the run inside process_edi_file
    doc,            \* edi_content: index into Docs
    max_retries,    \* self.max_retries
    retry_delay,    \* self.retry_delay
    db_service,     \* TRUE iff self.db_service is set (persistence enabled)
    in_process,     \* TRUE iff the downstream call is the in-process endpoint
    result,         \* the Execution Record (result dict)
    exc,            \* the exception in flight: [kind, text], kind "" when none
    attempt,        \* loop variable of _post_to_erp_with_retry
    delay,          \* local delay of _post_to_erp_with_retry
    last_error,     \* local last_error of _post_to_erp_with_retry
    erp_response,   \* the dict _post_to_erp_with_retry returned
    now,            \* seconds elapsed since start_time
    store_calls,    \* the calls made on the job-record store, in order
    faults,         \* store calls that failed so far
    calls,          \* history: number of downstream calls made
    last_call,      \* history: attempt and result of the latest downstream call
    waits,          \* history: the arguments of time.sleep, in order
    finalizations,  \* history: number of times the finally block ran
    outcome,        \* "running", then "returned" or "raised"
    job_id,         \* job_id of this run (the uuid4 of line 72)
    peer,           \* the other run in progress, while this one has the processor
    arg,            \* a component called on its own: its name and its argument
    ret             \* what that call returned or raised

vars == << pc, doc, max_retries, retry_delay, db_service, in_process, result, exc,
           attempt, delay, last_error, erp_response, now, store_calls, faults,
           calls, last_call, waits, finalizations, outcome, job_id, peer, arg, ret >>

\* What no statement of process_edi_file changes: the document, the settings of
\* the orchestrator, the job id, the state of another run, and a call made on a
\* component outside the run.
config == << doc, max_retries, retry_delay, db_service, in_process, job_id, peer,
            arg, ret >>
retry_locals == << attempt, delay, last_error, erp_response >>
histories == << calls, last_call, waits >>

NoException == [ kind |-> "", text |-> "" ]
NoCall == [ attempt |-> 0, ok |-> FALSE, error |-> NoText ]

\* No other run is in progress.
NoPeer == [ job_id |-> 0 ]

\* No component is called on its own.
NoArg == [ fn |-> "" ]

\* The result dict of lines 75-88.
InitialResult ==
    [ success          |-> FALSE,
      completed_at     |-> NoTime,
      duration_seconds |-> NoTime,
      steps |-> [ parse       |-> [ status |-> "pending", data |-> None, error |-> NoText ],
                  transform   |-> [ status |-> "pending", data |-> None, error |-> NoText ],
                  validate    |-> [ status |-> "pending", errors |-> None, error |-> NoText ],
                  post_to_erp |-> [ status |-> "pending", data |-> None, error |-> NoText,
                                    attempts |-> 0 ] ],
      final_result     |-> None ]

Init ==
    /\ pc = "start"
    /\ doc \in DocIds
    /\ max_retries \in 1..MaxRetriesBound
    /\ retry_delay \in 1..MaxRetryDelay
    /\ db_service \in BOOLEAN
    /\ in_process \in BOOLEAN
    /\ result = InitialResult
    /\ exc = NoException
    /\ attempt = 0
    /\ delay = 0
    /\ last_error = NoText
    /\ erp_response = None
    /\ now = 0
    /\ store_calls = <<>>
    /\ faults = 0
    /\ calls = 0
    /\ last_call = NoCall
    /\ waits = <<>>
    /\ finalizations = 0
    /\ outcome = "running"
    /\ job_id = 1
    /\ peer = NoPeer
    /\ arg = NoArg
    /\ ret = None

(***************************************************************************)
(* Calls on the job-record store (DatabaseService)                         *)
(***************************************************************************)

StoreCallUntagged(op, what, status, text, attempts) ==
    [ job |-> 1, op |-> op, what |-> what, status |-> status, text |-> text,
      attempts |-> attempts, ok |-> TRUE ]

\* Every call on the store carries the job_id of the run that makes it.
StoreCall(op, what, status, text, attempts) ==
    [ job |-> job_id, op |-> op, what |-> what, status |-> status, text |-> text,
      attempts |-> attempts, ok |-> TRUE ]

create_job == StoreCall("create_job", "job", "", "", 0)
create_job_step(step_name, status, text, attempts) ==
    StoreCall("create_job_step", step_name, status, text, attempts)
update_job(field, value) == StoreCall("update_job", field, value, "", 0)

SwallowedNothing(call) == FALSE

\* _log_to_db: the only store call whose exception is swallowed.
log_to_db(level, message) == StoreCall("create_job_log", level, "", message, 0)

Swallowed(call) == call.op = "create_job_log"

\* The store calls a block of code makes, in order, when the calls at the
\* positions in failing raise: the block stops at the first call whose
\* exception is not swallowed.
RECURSIVE StoreRunFrom(_, _, _)
StoreRunFrom(ws, i, failing) ==
    IF i > Len(ws) THEN [ made |-> <<>>, raised |-> FALSE ]
    ELSE IF i \notin failing
    THEN LET rest == StoreRunFrom(ws, i + 1, failing)
         IN  [ made |-> <<ws[i]>> \o rest.made, raised |-> rest.raised ]
    ELSE IF Swallowed(ws[i])
    THEN LET rest == StoreRunFrom(ws, i + 1, failing)
         IN  [ made |-> <<[ws[i] EXCEPT !.ok = FALSE]>> \o rest.made,
               raised |-> rest.raised ]
    ELSE [ made |-> <<[ws[i] EXCEPT !.ok = FALSE]>>, raised |-> TRUE ]

StoreRun(ws, failing) == StoreRunFrom(ws, 1, failing)

\* "if self.db_service:" around the store calls of a block.
IfStore(ws) == IF db_service THEN ws ELSE <<>>

\* The sets of failing positions among the calls ws: at most the remaining
\* number of faults, and none behind a call that raises.
FaultChoices(ws) ==
    { F \in SUBSET (1..Len(ws)) :
        /\ Cardinality(F) <= MaxStoreFaults - faults
        /\ \A i \in F : \A j \in F : j < i => Swallowed(ws[j]) }

\* What a block with store calls ws does to the store when persistence is on.
Persist(ws, F) ==
    /\ store_calls' = store_calls \o StoreRun(ws, F).made
    /\ faults' = faults + Cardinality(F)

StoreException == [ kind |-> "Exception", text |-> STORE_ERROR ]

\* f"{amount:.2f}" of a non-negative amount in hundredths.
Money(n) ==
    ToString(n \div 100) \o "." \o ToString((n % 100) \div 10) \o ToString(n % 10)

ParsedDocsKeptFromFirst ==
    [ d \in DocIds |-> IF job_id = 1 THEN parse(Docs[d]) ELSE parse(Docs[1]) ]

\* _parse_edi(edi_content) and _transform_to_erp(parsed_data) for each document:
\* what the parser makes of it and what the mapper makes of the parser's output.
ParsedDocs == [ d \in DocIds |-> parse(Docs[d]) ]
MappedDocs ==
    [ d \in DocIds |->
        IF ParsedDocs[d].ok THEN transform(ParsedDocs[d].data)
        ELSE [ ok |-> FALSE, error |-> "" ] ]

StartUnannounced ==
    /\ pc = "start"
    /\ pc' = "parse"
    /\ UNCHANGED << config, result, exc, retry_locals, now, store_calls, faults,
                    histories, finalizations, outcome >>

\* Lines 72-101: the record is created and the job is announced to the store.
\* create_job is called outside the try statement: its exception leaves
\* process_edi_file at once.
Start ==
    /\ pc = "start"
    /\ LET ws == IfStore(<< create_job, log_to_db("INFO", "Integration job started") >>)
       IN  \E F \in FaultChoices(ws) :
             /\ Persist(ws, F)
             /\ IF StoreRun(ws, F).raised
                THEN /\ exc' = StoreException
                     /\ outcome' = "raised"
                     /\ pc' = "done"
                ELSE /\ pc' = "parse"
                     /\ UNCHANGED << exc, outcome >>
    /\ UNCHANGED << config, result, retry_locals, now, histories, finalizations >>

\* Lines 104-126: step 1.
ParseStage ==
    /\ pc = "parse"
    /\ LET parsed == ParsedDocs[doc] IN
       IF ~parsed.ok
       THEN /\ exc' = [ kind |-> "EDIParsingError", text |-> parsed.error ]
            /\ pc' = "except"
            /\ UNCHANGED << result, store_calls, faults >>
       ELSE LET po_number == parsed.data.beg_segment.purchase_order_number
                message == "Parse successful - PO: " \o Join(po_number)
                ws == IfStore(<< create_job_step("parse", "success", "", 0),
                                 update_job("po_number", Join(po_number)),
                                 log_to_db("INFO", message) >>)
            IN  /\ result' = [ result EXCEPT !.steps.parse.status = "success",
                                            !.steps.parse.data = Some(parsed.data) ]
                /\ \E F \in FaultChoices(ws) :
                     /\ Persist(ws, F)
                     /\ IF StoreRun(ws, F).raised
                        THEN exc' = StoreException /\ pc' = "except"
                        ELSE exc' = exc /\ pc' = "transform"
    /\ UNCHANGED << config, retry_locals, now, histories, finalizations, outcome >>

\* Lines 128-152: step 2.
TransformStage ==
    /\ pc = "transform"
    /\ LET mapped == MappedDocs[doc] IN
       IF ~mapped.ok
       THEN /\ exc' = [ kind |-> "TransformationError", text |-> mapped.error ]
            /\ pc' = "except"
            /\ UNCHANGED << result, store_calls, faults >>
       ELSE LET erp_payload == mapped.data
                message == "Transform successful - Total: $"
                           \o Money(erp_payload.total_amount)
                ws == IfStore(<< create_job_step("transform", "success", "", 0),
                                 update_job("total_amount", Money(erp_payload.total_amount)),
                                 log_to_db("INFO", message) >>)
            IN  /\ result' = [ result EXCEPT !.steps.transform.status = "success",
                                            !.steps.transform.data = Some(erp_payload) ]
                /\ \E F \in FaultChoices(ws) :
                     /\ Persist(ws, F)
                     /\ IF StoreRun(ws, F).raised
                        THEN exc' = StoreException /\ pc' = "except"
                        ELSE exc' = exc /\ pc' = "validate"
    /\ UNCHANGED << config, retry_locals, now, histories, finalizations, outcome >>

validate_payload_unchecked(erp_payload) == None

\* _validate_payload: the violation list, or None for an empty one.  The
\* payload is the mapper's model_dump(), which ERPPurchaseOrder(**payload)
\* accepts.
validate_payload(erp_payload) ==
    LET errors == validate_business_rules(erp_payload)
    IN  IF errors # <<>> THEN Some(errors) ELSE None

\* Line 159: "success" if not validation_result else "failed".
validation_status_inverted(validation_result) ==
    IF validation_result.some THEN "success" ELSE "failed"

validation_status(validation_result) ==
    IF ~validation_result.some THEN "success" ELSE "failed"

\* Lines 158-202: step 3, and the entry into _post_to_erp_with_retry
\* (lines 345-346) when the payload is valid.
ValidateStage ==
    /\ pc = "validate"
    /\ LET erp_payload == result.steps.transform.data.v
           validation_result == validate_payload(erp_payload)
           recorded == [ result EXCEPT
                           !.steps.validate.status = validation_status(validation_result),
                           !.steps.validate.errors = validation_result ]
       IN  IF validation_result.some
           THEN LET error_msg == "Business rule validation failed: "
                                 \o ToString(Len(validation_result.v)) \o " errors"
                    ws == IfStore(<< create_job_step("validate", "failed", error_msg, 0),
                                     log_to_db("ERROR", error_msg) >>)
                IN  \E F \in FaultChoices(ws) :
                      /\ Persist(ws, F)
                      /\ IF StoreRun(ws, F).raised
                         THEN /\ result' = recorded
                              /\ exc' = StoreException
                              /\ pc' = "except"
                         ELSE /\ result' =
                                   [ recorded EXCEPT
                                       !.success = FALSE,
                                       !.final_result =
                                           Some([ error |-> error_msg,
                                                  validation_errors |-> validation_result.v ]) ]
                              /\ exc' = exc
                              /\ pc' = "finally"
                      /\ UNCHANGED << attempt, delay, last_error >>
           ELSE LET ws == IfStore(<< create_job_step("validate", "success", "", 0),
                                     log_to_db("INFO", "Validation successful") >>)
                IN  /\ result' = recorded
                    /\ \E F \in FaultChoices(ws) :
                         /\ Persist(ws, F)
                         /\ IF StoreRun(ws, F).raised
                            THEN /\ exc' = StoreException
                                 /\ pc' = "except"
                                 /\ UNCHANGED << attempt, delay, last_error >>
                            ELSE /\ exc' = exc
                                 /\ last_error' = NoText
                                 /\ delay' = retry_delay
                                 /\ attempt' = 1
                                 /\ pc' = "submit"
    /\ UNCHANGED << config, erp_response, now, histories, finalizations, outcome >>

\* Lines 348-356: the head of one iteration of the retry loop.
SubmitBegin ==
    /\ pc = "submit"
    /\ result' = [ result EXCEPT !.steps.post_to_erp.attempts = attempt ]
    /\ LET ws == IF attempt > 1
                 THEN IfStore(<< log_to_db("WARNING",
                                    "Retry attempt " \o ToString(attempt) \o "/"
                                    \o ToString(max_retries)) >>)
                 ELSE <<>>
       IN  \E F \in FaultChoices(ws) : Persist(ws, F)
    /\ pc' = "call"
    /\ UNCHANGED << config, exc, retry_locals, now, histories, finalizations, outcome >>

\* What the downstream call of one attempt can do: the in-process endpoint
\* applies its rules to the payload; any other downstream accepts or fails.
CallOutcomes(erp_payload) ==
    IF in_process
    THEN { create_purchase_order(erp_payload, suffix) : suffix \in ErpIdSuffixes }
    ELSE { [ ok |-> TRUE, response |-> ERPResponse(erp_payload, suffix) ] :
             suffix \in ErpIdSuffixes }
         \cup { [ ok |-> FALSE, error |-> e ] : e \in DownstreamFailures }

AfterFailureOffByOne(k) == IF k <= max_retries THEN "sleep" ELSE "exhausted"

AfterFailureGiveUp(k) == "exhausted"

\* The "for attempt in range(1, self.max_retries + 1)" test after a failed
\* attempt: wait and go round again, or leave the loop.
AfterFailure(k) == IF k < max_retries THEN "sleep" ELSE "exhausted"

record_error_first(previous, e) == IF previous = NoText THEN e ELSE previous

\* Line 381: last_error = e
record_error(previous, e) == e

\* Lines 358-388: the downstream call of one attempt, and what its result or
\* its exception leads to.
SubmitCall ==
    /\ pc = "call"
    /\ calls' = calls + 1
    /\ \E out \in CallOutcomes(result.steps.transform.data.v) :
         IF out.ok
         THEN /\ erp_response' = Some(out.response)
              /\ last_call' = [ attempt |-> attempt, ok |-> TRUE, error |-> NoText ]
              /\ pc' = "posted"
              /\ UNCHANGED last_error
         ELSE /\ last_error' = record_error(last_error, out.error)
              /\ last_call' = [ attempt |-> attempt, ok |-> FALSE, error |-> out.error ]
              /\ pc' = AfterFailure(attempt)
              /\ UNCHANGED erp_response
    /\ UNCHANGED << config, result, exc, attempt, delay, now, store_calls, faults,
                    waits, finalizations, outcome >>

next_delay_constant(d) == d

\* Line 391: delay *= 2
next_delay(d) == d * 2

\* Lines 389-391: time.sleep(delay), then the delay doubles and the loop takes
\* the next attempt.
Backoff ==
    /\ pc = "sleep"
    /\ waits' = Append(waits, delay)
    /\ now' = now + delay
    /\ delay' = next_delay(delay)
    /\ attempt' = attempt + 1
    /\ pc' = "submit"
    /\ UNCHANGED << config, result, exc, last_error, erp_response, store_calls, faults,
                    calls, last_call, finalizations, outcome >>

\* Line 394: the aggregate error of an exhausted retry loop.
exhausted_error_msg(n, error) ==
    "All " \o ToString(n) \o " retry attempts failed. Last error: " \o error

\* Lines 393-409: every attempt failed.
SubmitExhausted ==
    /\ pc = "exhausted"
    /\ LET error_msg == exhausted_error_msg(max_retries, last_error)
           ws == IfStore(<< create_job_step("post_to_erp", "failed", error_msg, max_retries),
                            log_to_db("ERROR", error_msg) >>)
       IN  /\ result' = [ result EXCEPT !.steps.post_to_erp.status = "failed",
                                       !.steps.post_to_erp.error = error_msg ]
           /\ \E F \in FaultChoices(ws) :
                /\ Persist(ws, F)
                /\ exc' = IF StoreRun(ws, F).raised
                          THEN StoreException
                          ELSE [ kind |-> "Exception", text |-> error_msg ]
    /\ pc' = "except"
    /\ UNCHANGED << config, retry_locals, now, histories, finalizations, outcome >>

\* Lines 203-224: the retry loop returned a response.
PostSuccess ==
    /\ pc = "posted"
    /\ LET erp_po_id == erp_response.v.erp_po_id
           recorded == [ result EXCEPT !.steps.post_to_erp.status = "success",
                                       !.steps.post_to_erp.data = erp_response ]
           ws == IfStore(<< create_job_step("post_to_erp", "success", "",
                                            result.steps.post_to_erp.attempts),
                            update_job("erp_po_id", erp_po_id),
                            log_to_db("INFO", "ERP post successful - ERP PO ID: "
                                              \o erp_po_id) >>)
       IN  \E F \in FaultChoices(ws) :
             /\ Persist(ws, F)
             /\ IF StoreRun(ws, F).raised
                THEN /\ result' = recorded
                     /\ exc' = StoreException
                     /\ pc' = "except"
                ELSE /\ result' = [ recorded EXCEPT !.success = TRUE,
                                                    !.final_result = erp_response ]
                     /\ exc' = exc
                     /\ pc' = "finally"
    /\ UNCHANGED << config, retry_locals, now, histories, finalizations, outcome >>

\* An except clause ran to its end (the exception is handled), or a store call
\* inside it raised (that exception is now in flight); the finally block is next.
LeaveHandler(ws, F) ==
    /\ Persist(ws, F)
    /\ exc' = IF StoreRun(ws, F).raised THEN StoreException ELSE NoException
    /\ pc' = "finally"

\* Lines 226-241: except EDIParsingError.
HandleParsingError ==
    /\ pc = "except"
    /\ exc.kind = "EDIParsingError"
    /\ result' = [ result EXCEPT !.steps.parse.status = "failed",
                                !.steps.parse.error = exc.text ]
    /\ LET ws == IfStore(<< create_job_step("parse", "failed", exc.text, 0),
                            log_to_db("ERROR", "EDI parsing error: " \o exc.text) >>)
       IN  \E F \in FaultChoices(ws) : LeaveHandler(ws, F)
    /\ UNCHANGED << config, retry_locals, now, histories, finalizations, outcome >>

HandleTransformationErrorAsParse ==
    /\ pc = "except"
    /\ exc.kind = "TransformationError"
    /\ result' = [ result EXCEPT !.steps.parse.status = "failed",
                                !.steps.parse.error = exc.text ]
    /\ LET ws == IfStore(<< create_job_step("parse", "failed", exc.text, 0),
                            log_to_db("ERROR", "Transformation error: " \o exc.text) >>)
       IN  \E F \in FaultChoices(ws) : LeaveHandler(ws, F)
    /\ UNCHANGED << config, retry_locals, now, histories, finalizations, outcome >>

\* Lines 243-258: except TransformationError.
HandleTransformationError ==
    /\ pc = "except"
    /\ exc.kind = "TransformationError"
    /\ result' = [ result EXCEPT !.steps.transform.status = "failed",
                                !.steps.transform.error = exc.text ]
    /\ LET ws == IfStore(<< create_job_step("transform", "failed", exc.text, 0),
                            log_to_db("ERROR", "Transformation error: " \o exc.text) >>)
       IN  \E F \in FaultChoices(ws) : LeaveHandler(ws, F)
    /\ UNCHANGED << config, retry_locals, now, histories, finalizations, outcome >>

StepsNotSucceeded(r) == SelectSeq(StepNames, LAMBDA name : r.steps[name].status # "success")

\* The steps that are pending, in the order of the steps dict.
PendingSteps(r) == SelectSeq(StepNames, LAMBDA name : r.steps[name].status = "pending")

StepToBlameLast(pending) == pending[Len(pending)]

\* The step the loop of lines 265-278 marks: the first one it finds pending.
StepToBlame(pending) == Head(pending)

\* Lines 260-282: except Exception.
HandleUnexpected ==
    /\ pc = "except"
    /\ exc.kind = "Exception"
    /\ LET pending == PendingSteps(result)
           ws == IF pending # <<>>
                 THEN IfStore(<< create_job_step(StepToBlame(pending), "failed", exc.text, 0),
                                 log_to_db("ERROR", "Unexpected error: " \o exc.text) >>)
                 ELSE IfStore(<< log_to_db("ERROR", "Unexpected error: " \o exc.text) >>)
       IN  /\ result' = IF pending # <<>>
                        THEN [ result EXCEPT
                                 !.steps[StepToBlame(pending)].status = "failed",
                                 !.steps[StepToBlame(pending)].error = exc.text ]
                        ELSE result
           /\ \E F \in FaultChoices(ws) : LeaveHandler(ws, F)
    /\ UNCHANGED << config, retry_locals, now, histories, finalizations, outcome >>

\* Lines 284-303: the finally block.  An exception of its update_job replaces
\* the one in flight.
Finalize ==
    /\ pc = "finally"
    /\ result' = [ result EXCEPT !.completed_at = now, !.duration_seconds = now ]
    /\ finalizations' = finalizations + 1
    /\ LET ws == IfStore(<< update_job("completed_at",
                                       IF result.success THEN "True" ELSE "False"),
                            log_to_db("INFO", "Job completed - Success: "
                                       \o (IF result.success THEN "True" ELSE "False")) >>)
       IN  \E F \in FaultChoices(ws) :
             /\ Persist(ws, F)
             /\ exc' = IF StoreRun(ws, F).raised THEN StoreException ELSE exc
    /\ pc' = "return"
    /\ UNCHANGED << config, retry_locals, now, histories, outcome >>

\* Line 305, or the exception in flight leaves process_edi_file.
Return ==
    /\ pc = "return"
    /\ outcome' = IF exc.kind # "" THEN "raised" ELSE "returned"
    /\ pc' = "done"
    /\ UNCHANGED << config, result, exc, retry_locals, now, store_calls, faults,
                    histories, finalizations >>

Next ==
    \/ Start
    \/ ParseStage
    \/ TransformStage
    \/ ValidateStage
    \/ SubmitBegin
    \/ SubmitCall
    \/ Backoff
    \/ SubmitExhausted
    \/ PostSuccess
    \/ HandleParsingError
    \/ HandleTransformationError
    \/ HandleUnexpected
    \/ Finalize
    \/ Return

Spec == Init /\ [][Next]_vars

(***************************************************************************)
(* Two runs in progress at once.  Each run has its own orchestrator, record *)
(* and locals; the run that has the processor is in the variables, the      *)
(* other one is kept in peer, and the two may change places before any step.*)
(***************************************************************************)

\* The state of the run that has the processor.
Self ==
    [ pc |-> pc, doc |-> doc, max_retries |-> max_retries, retry_delay |-> retry_delay,
      db_service |-> db_service, in_process |-> in_process, result |-> result,
      exc |-> exc, attempt |-> attempt, delay |-> delay, last_error |-> last_error,
      erp_response |-> erp_response, now |-> now, store_calls |-> store_calls,
      faults |-> faults, calls |-> calls, last_call |-> last_call, waits |-> waits,
      finalizations |-> finalizations, outcome |-> outcome, job_id |-> job_id ]

\* A run that was just started: the state process_edi_file is entered in.
StartOfRun(id, d, retries, seconds, store, local, failed) ==
    [ pc |-> "start", doc |-> d, max_retries |-> retries, retry_delay |-> seconds,
      db_service |-> store, in_process |-> local, result |-> InitialResult,
      exc |-> NoException, attempt |-> 0, delay |-> 0, last_error |-> NoText,
      erp_response |-> None, now |-> 0, store_calls |-> <<>>,
      faults |-> failed, calls |-> 0, last_call |-> NoCall, waits |-> <<>>,
      finalizations |-> 0, outcome |-> "running", job_id |-> id ]

\* The run r has the processor.
Running(r) ==
    /\ pc = r.pc
    /\ doc = r.doc
    /\ max_retries = r.max_retries
    /\ retry_delay = r.retry_delay
    /\ db_service = r.db_service
    /\ in_process = r.in_process
    /\ result = r.result
    /\ exc = r.exc
    /\ attempt = r.attempt
    /\ delay = r.delay
    /\ last_error = r.last_error
    /\ erp_response = r.erp_response
    /\ now = r.now
    /\ store_calls = r.store_calls
    /\ faults = r.faults
    /\ calls = r.calls
    /\ last_call = r.last_call
    /\ waits = r.waits
    /\ finalizations = r.finalizations
    /\ outcome = r.outcome
    /\ job_id = r.job_id

\* The run r gets the processor.
Resume(r) ==
    /\ pc' = r.pc
    /\ doc' = r.doc
    /\ max_retries' = r.max_retries
    /\ retry_delay' = r.retry_delay
    /\ db_service' = r.db_service
    /\ in_process' = r.in_process
    /\ result' = r.result
    /\ exc' = r.exc
    /\ attempt' = r.attempt
    /\ delay' = r.delay
    /\ last_error' = r.last_error
    /\ erp_response' = r.erp_response
    /\ now' = r.now
    /\ store_calls' = r.store_calls
    /\ faults' = r.faults
    /\ calls' = r.calls
    /\ last_call' = r.last_call
    /\ waits' = r.waits
    /\ finalizations' = r.finalizations
    /\ outcome' = r.outcome
    /\ job_id' = r.job_id

\* The other run gets the processor.
Switch ==
    /\ peer # NoPeer
    /\ peer.pc # "done"
    /\ Resume(peer)
    /\ peer' = Self
    /\ UNCHANGED << arg, ret >>

\* Two runs are started on two documents, with persistence and job ids of
\* their own: one against a downstream that may fail, with the store available;
\* the other against the in-process endpoint, with a store call that may fail.
ConcurrentInit ==
    \E d1 \in DocIds, d2 \in DocIds :
        /\ Running(StartOfRun(1, d1, MaxRetriesBound - 1, 1, TRUE, FALSE, MaxStoreFaults))
        /\ peer = StartOfRun(2, d2, 1, 1, TRUE, TRUE, MaxStoreFaults - 1)
        /\ arg = NoArg
        /\ ret = None

ConcurrentNext ==
    \/ Next
    \/ Switch

ConcurrentSpec == ConcurrentInit /\ [][ConcurrentNext]_vars

(***************************************************************************)
(* Two runs on one event loop.  A coroutine keeps the loop until it awaits  *)
(* something that suspends it or until it ends.  process_edi_file awaits    *)
(* only coroutines that run to their end without suspending, and it waits   *)
(* between attempts in time.sleep (line 389), which holds the thread.       *)
(***************************************************************************)

\* The running coroutine gives the event loop to another one.
YieldsControl == pc = "done"

\* The event loop resumes the other run.
Yield ==
    /\ YieldsControl
    /\ Switch

LoopNext ==
    \/ Next
    \/ Yield

LoopSpec == ConcurrentInit /\ [][LoopNext]_vars

\* process_edi_file is one coroutine that never waits for anything but its own
\* time.sleep: a step that can be taken is taken.
FairSpec == Spec /\ WF_vars(Next)

(***************************************************************************)
(* The components called on their own                                      *)
(***************************************************************************)

\* Segments a document is assembled from: each required segment with exactly
\* its minimum number of elements and with one element less, and occurrences
\* of the repeatable segments at, above and below their minimum.
ISA_SEG ==
    <<"I","S","A","*","0","0","*","a","*","0","0","*","b","*","Z","Z","*","s","*","Z","Z","*","r","*","d","*","t","*","U","*","v","*","1","*","0","*","P","*",">","~","\n">>
ISA_SHORT ==
    <<"I","S","A","*","0","0","*","a","*","0","0","*","b","*","Z","Z","*","s","*","Z","Z","*","r","*","d","*","t","*","U","*","v","*","1","*","0","*","P","~","\n">>
GS_SEG ==
    <<"G","S","*","P","O","*","s","*","r","*","d","*","t","*","1","*","X","*","v","~","\n">>
GS_SHORT ==
    <<"G","S","*","P","O","*","s","*","r","*","d","*","t","*","1","*","X","~","\n">>
ST_SEG == <<"S","T","*","8","5","0","*","1","~">>
BEG_SHORT ==
    <<"B","E","G","*","0","0","*","N","E","*","P","O","7","*","~">>
CTT_SHORT == <<"C","T","T","~">>
REF_LONG == <<"R","E","F","*","I","A","*","7","*","x","~">>
REF_SHORT == <<"R","E","F","*","D","P","~">>
N1_BARE == <<"N","1","*","V","N","~">>
PO1_SEVEN ==
    <<"P","O","1","*","2","*","1","*","E","A","*","0",".","2","5","*","*","B","P","~">>
PO1_SIX ==
    <<"P","O","1","*","3","*","1","*","E","A","*","0",".","2","5","*","~">>

\* A second vendor and a second ship-to loop, a line item whose product is
\* rounded up (1.3 x 0.06), and totals declaring five line items and a hash
\* total.
N1_VN2 ==
    <<"N","1","*","V","N","*","B","o","l","t","*","9","2","*","V","2","~">>
N1_ST2 ==
    <<"N","1","*","S","T","*","P","i","e","r","*","9","2","*","S","2","~">>
PO1_ROUND ==
    <<"P","O","1","*","3","*","1",".","3","*","E","A","*","0",".","0","6","*","*","B","P","*","S","K","U","3","~">>
CTT_DECLARED ==
    <<"C","T","T","*","5","*","9","9","9","~">>

\* The ways a required segment occurs in a document: once with its minimum
\* number of elements, once with one element less, not at all, or twice.
Presence == {"ok", "short", "none", "short_ok", "ok_short"}
HeaderPresence == {"ok", "short", "none"}

Occurring(ok, short, how) ==
    CASE how = "ok"       -> ok
      [] how = "short"    -> short
      [] how = "none"     -> <<>>
      [] how = "short_ok" -> short \o ok
      [] how = "ok_short" -> ok \o short

Recipes == [ isa : HeaderPresence, gs : HeaderPresence, beg : Presence, ctt : Presence ]
AllPresent == [ isa |-> "ok", gs |-> "ok", beg |-> "ok", ctt |-> "ok" ]

\* The segments a document is assembled from, by name.
OccurrenceText ==
    [ REF_SEG |-> REF_SEG, REF_LONG |-> REF_LONG, REF_SHORT |-> REF_SHORT,
      N1_VN_SHORT |-> N1_VN_SHORT, N1_ST |-> N1_ST, N1_BARE |-> N1_BARE,
      PO1_A |-> PO1_A, PO1_SEVEN |-> PO1_SEVEN, PO1_SIX |-> PO1_SIX,
      N1_VN |-> N1_VN, N1_VN2 |-> N1_VN2, N1_ST2 |-> N1_ST2,
      PO1_B |-> PO1_B, PO1_ROUND |-> PO1_ROUND,
      CTT_1 |-> CTT_1, CTT_DECLARED |-> CTT_DECLARED ]

\* The occurrences of repeatable segments given to the parser, the name and
\* address loops, line items and totals given (parsed) to the mapper.
OccurrenceNames ==
    { "REF_SEG", "REF_LONG", "REF_SHORT", "N1_VN_SHORT", "N1_ST", "N1_BARE",
      "PO1_A", "PO1_SEVEN", "PO1_SIX" }
LoopNames == { "N1_VN", "N1_VN2", "N1_ST", "N1_ST2", "N1_VN_SHORT" }
ItemNames == { "PO1_A", "PO1_B", "PO1_ROUND" }
TotalsNames == { "CTT_1", "CTT_DECLARED" }
ShortRepeats == <<"REF_SHORT", "N1_BARE", "PO1_SIX">>

\* Largest number of repeatable segments in an assembled document, and the
\* longest raw text given to the tokenizer.
MaxOccurrences == 3
MaxTextLen == 4

\* Largest number of name and address loops, and of line items, in a document
\* given to the mapper, and the longest date text given to _format_date.
MaxLoops == 3
MaxItems == 2
MaxDateLen == 9

SeqsUpTo(S, n) == UNION { [1..k -> S] : k \in 0..n }

RECURSIVE Texts(_)
Texts(occ) ==
    IF occ = <<>> THEN <<>> ELSE OccurrenceText[Head(occ)] \o Texts(Tail(occ))

\* The document with the required segments of the recipe and the repeatable
\* segments occ between the PO header and the totals.
Assemble(recipe, occ) ==
    Occurring(ISA_SEG, ISA_SHORT, recipe.isa)
    \o Occurring(GS_SEG, GS_SHORT, recipe.gs)
    \o ST_SEG
    \o Occurring(BEG_SEG, BEG_SHORT, recipe.beg)
    \o Texts(occ)
    \o Occurring(CTT_1, CTT_SHORT, recipe.ctt)
    \o TRAILER

\* Arguments of EDI850Parser.parse.
ParserInputs ==
    { [ fn |-> "parse", recipe |-> r, occ |-> o, input |-> Assemble(r, o) ] :
        r \in Recipes, o \in {<<>>, ShortRepeats} }
    \cup
    { [ fn |-> "parse", recipe |-> AllPresent, occ |-> o,
        input |-> Assemble(AllPresent, o) ] :
        o \in SeqsUpTo(OccurrenceNames, MaxOccurrences) }

\* A complete document with the given loops, line items and totals.
MapperDocument(loops, items, totals) ==
    ISA_SEG \o GS_SEG \o ST_SEG \o BEG_SEG \o REF_SEG
    \o Texts(loops) \o Texts(items) \o OccurrenceText[totals] \o TRAILER

\* Arguments of ERPMapper.transform: what the parser returns for documents
\* that differ in their loops, and in their line items and totals.
MapperInputs ==
    { [ fn |-> "transform", loops |-> l, items |-> <<"PO1_A">>, totals |-> "CTT_1",
        input |-> parse(MapperDocument(l, <<"PO1_A">>, "CTT_1")).data ] :
        l \in SeqsUpTo(LoopNames, MaxLoops) }
    \cup
    { [ fn |-> "transform", loops |-> <<"N1_VN", "N1_ST">>, items |-> i, totals |-> c,
        input |-> parse(MapperDocument(<<"N1_VN", "N1_ST">>, i, c)).data ] :
        i \in SeqsUpTo(ItemNames, MaxItems), c \in TotalsNames }

\* Arguments of _validate_business_rules: the payload of the first document
\* with some of its fields set to other values, as an ERPPurchaseOrder built
\* by hand can have them.
BasePayload == MappedDocs[1].data
BaseItem == BasePayload.line_items[1]
ItemVariants ==
    { BaseItem,
      [ BaseItem EXCEPT !.quantity = 0, !.total_price = 0 ],
      [ BaseItem EXCEPT !.unit_price = -350, !.total_price = -700 ],
      [ BaseItem EXCEPT !.quantity = -100, !.unit_price = -350, !.total_price = -700 ] }
AmountVariants == { -1, 0, BasePayload.total_amount }
LineCountVariants == { 0, 1, 2, 999 }
VendorNameVariants == { BasePayload.vendor.vendor_name, <<>>, UNKNOWN_VENDOR }
LocationNameVariants == { BasePayload.ship_to.location_name, <<>>, UNKNOWN_LOCATION }
PoNumberVariants == { BasePayload.po_number, <<>>, <<" ">> }

ValidatorInputs ==
    { [ fn |-> "validate",
        input |-> [ BasePayload EXCEPT !.total_amount = a,
                                       !.total_lines = n,
                                       !.line_items = items,
                                       !.vendor.vendor_name = v,
                                       !.ship_to.location_name = s,
                                       !.po_number = p ] ] :
        a \in AmountVariants, n \in LineCountVariants,
        items \in SeqsUpTo(ItemVariants, MaxItems),
        v \in VendorNameVariants, s \in LocationNameVariants,
        p \in PoNumberVariants }

\* Arguments of ERPMapper._format_date: the date of the sample document, the
\* same date already formatted, and every short text over a digit, a dash and
\* a letter.
DateAlphabet == {"1", "-", "x"}
DateInputs ==
    { [ fn |-> "format_date", input |-> d ] :
        d \in { <<"2","0","2","4","0","1","1","5">>,
                <<"2","0","2","4","-","0","1","-","1","5">> }
              \cup SeqsUpTo(DateAlphabet, MaxDateLen) }

\* Arguments of EDI850Parser._split_segments: every short text over a letter,
\* the two delimiters and two whitespace characters.
Alphabet == {"A", "*", "~", " ", "\n"}
TokenizerInputs ==
    { [ fn |-> "split_segments", input |-> t ] : t \in SeqsUpTo(Alphabet, MaxTextLen) }

\* Every variable of a pipeline run.
run_vars == << pc, doc, max_retries, retry_delay, db_service, in_process, result,
               exc, attempt, delay, last_error, erp_response, now, store_calls,
               faults, calls, last_call, waits, finalizations, outcome, job_id,
               peer >>

\* The components are constructed, no run is in progress, and one component is
\* about to be called with one argument.
UnitInit ==
    /\ Running([ StartOfRun(1, 1, 1, 1, FALSE, TRUE, 0) EXCEPT !.pc = "idle" ])
    /\ peer = NoPeer
    /\ \/ arg \in TokenizerInputs
       \/ arg \in ParserInputs
       \/ arg \in MapperInputs
       \/ arg \in ValidatorInputs
       \/ arg \in DateInputs
    /\ ret = None

\* segments = self._split_segments(edi_content)
CallSplitSegments ==
    /\ arg.fn = "split_segments"
    /\ ~ret.some
    /\ ret' = Some(split_segments(arg.input))
    /\ UNCHANGED << run_vars, arg >>

\* parser.parse(edi_content)
CallParse ==
    /\ arg.fn = "parse"
    /\ ~ret.some
    /\ ret' = Some(parse(arg.input))
    /\ UNCHANGED << run_vars, arg >>

\* mapper.transform(parsed_edi)
CallTransform ==
    /\ arg.fn = "transform"
    /\ ~ret.some
    /\ ret' = Some(transform(arg.input))
    /\ UNCHANGED << run_vars, arg >>

\* _validate_business_rules(payload)
CallValidate ==
    /\ arg.fn = "validate"
    /\ ~ret.some
    /\ ret' = Some(validate_business_rules(arg.input))
    /\ UNCHANGED << run_vars, arg >>

\* self._format_date(beg.get("date", ""))
CallFormatDate ==
    /\ arg.fn = "format_date"
    /\ ~ret.some
    /\ ret' = Some(format_date(arg.input))
    /\ UNCHANGED << run_vars, arg >>

UnitNext ==
    \/ CallSplitSegments
    \/ CallParse
    \/ CallTransform
    \/ CallValidate
    \/ CallFormatDate

UnitSpec == UnitInit /\ [][UnitNext]_vars

(***************************************************************************)
(* Properties of the Execution Record and of the retry loop                *)
(***************************************************************************)

Status(name) == result.steps[name].status
Attempts == result.steps.post_to_erp.attempts
AllSuccess == \A i \in 1..Len(StepNames) : Status(StepNames[i]) = "success"

\* The try statement was left: a handler, the finally block or the return is next.
Leaving == pc \in {"except", "finally", "return", "done"}

RECURSIVE Pow2(_)
Pow2(n) == IF n = 0 THEN 1 ELSE 2 * Pow2(n - 1)

\* C1: in a returned record a failed step is followed only by pending steps
\* (so at most one step is failed).
C1_FailedThenPending ==
    outcome = "returned" =>
        \A i, j \in 1..Len(StepNames) :
            (i < j /\ Status(StepNames[i]) = "failed") => Status(StepNames[j]) = "pending"

\* C2: a downstream call is made only after parse, transform and validate reached
\* success, and never for a payload with a non-empty violation list.
C2_CallsOnlyAfterValidation ==
    calls > 0 =>
        /\ Status("parse") = "success"
        /\ Status("transform") = "success"
        /\ Status("validate") = "success"
        /\ validate_business_rules(result.steps.transform.data.v) = <<>>

C2_Witness ==
    /\ pc = "done"
    /\ calls = 2
    /\ Status("post_to_erp") = "success"

\* C3: the attempt counter of the submit step is the number of the downstream
\* call being made (one more than the calls made while the call is pending, the
\* number of calls made afterwards), and a run makes at most max_retries calls.
C3_AttemptsCountCalls ==
    /\ calls <= max_retries
    /\ Attempts = IF pc = "call" THEN calls + 1 ELSE calls

C3_Witness ==
    /\ pc = "call"
    /\ calls = 2
    /\ Attempts = 3

\* C4: after the first successful downstream response no further call and no
\* wait is made, the submit step is success with the response as data and the
\* index of the successful attempt as attempts, and overall success is true.
C4_FirstSuccessEndsRun ==
    last_call.ok =>
        /\ pc \in {"posted", "except", "finally", "return", "done"}
        /\ calls = last_call.attempt
        /\ Len(waits) = calls - 1
        /\ Leaving =>
             /\ Status("post_to_erp") = "success"
             /\ result.steps.post_to_erp.data = erp_response
             /\ Attempts = last_call.attempt
        /\ outcome = "returned" => result.success

\* C5: when all max_retries attempts failed, the submit step is failed with
\* attempts = max_retries and the aggregate error ending in the text of the last
\* attempt's failure, and overall success is false.
C5_Exhausted ==
    (Leaving /\ calls = max_retries /\ ~last_call.ok) =>
        /\ Status("post_to_erp") = "failed"
        /\ Attempts = max_retries
        /\ result.steps.post_to_erp.error =
             "All " \o ToString(max_retries) \o " retry attempts failed. Last error: "
             \o last_call.error
        /\ ~result.success

\* Three attempts failed, the last one differently from the second.
C5_Witness ==
    /\ outcome = "returned"
    /\ max_retries = 3
    /\ calls = 3
    /\ ~last_call.ok
    /\ last_call.error = "504: TIMEOUT ERP system timeout - please retry"
    /\ Status("post_to_erp") = "failed"

\* C6: no wait before attempt 1, the wait before attempt k >= 2 is
\* retry_delay * 2^(k-2), and none after the last attempt: n attempts, n-1 waits.
C6_BackoffSchedule ==
    /\ \A i \in 1..Len(waits) : waits[i] = retry_delay * Pow2(i - 1)
    /\ calls = 0 => waits = <<>>
    /\ calls > 0 =>
         Len(waits) = IF pc \in {"submit", "call"} THEN calls ELSE calls - 1

C6_Witness ==
    /\ pc = "done"
    /\ calls = 3
    /\ Len(waits) = 2
    /\ retry_delay = 2
    /\ waits = <<2, 4>>

\* The final update_job calls issued on the store.
FinalUpdates ==
    SelectSeq(store_calls,
              LAMBDA c : c.op = "update_job" /\ c.what = "completed_at")

\* C7: whenever process_edi_file is left, the finally block ran exactly once:
\* completed_at and duration_seconds are set and, with persistence, exactly one
\* final update_job was issued.
C7_FinalizedOnce ==
    outcome # "running" =>
        /\ finalizations = 1
        /\ result.completed_at # NoTime
        /\ result.duration_seconds # NoTime
        /\ db_service => Len(FinalUpdates) = 1

\* C8: overall success is true only if all four steps have status success.
C8_SuccessNeedsAllSteps == result.success => AllSuccess

C8_Witness ==
    /\ outcome = "returned"
    /\ result.success
    /\ AllSuccess

\* A step of the run changes the status of the step called name.
Changes(name) == result'.steps[name].status # result.steps[name].status

C10_FaultBlamesOneStep ==
    [][ (pc = "except" /\ exc.kind = "Exception" /\ pc' # pc) =>
          \E i \in 1..Len(StepNames) :
             /\ Status(StepNames[i]) = "pending"
             /\ result'.steps[StepNames[i]].status = "failed"
             /\ result'.steps[StepNames[i]].error = exc.text
             /\ \A j \in 1..Len(StepNames) :
                  j # i => result'.steps[StepNames[j]] = result.steps[StepNames[j]] ]_vars

\* The try statement and its handlers are over: the finally block is next or ran.
Handled == pc = "finally" \/ finalizations > 0

\* The record is sealed.
Sealed == result.completed_at # NoTime /\ result.duration_seconds # NoTime

\* C11: when the validator returned a non-empty violation list, the run ends
\* with validate failed carrying that list, submit pending with attempts 0,
\* overall success false, the record sealed, and the record returned.
C11_RejectionIsNormal ==
    (pc = "done" /\ result.steps.validate.errors.some) =>
        /\ Status("validate") = "failed"
        /\ result.steps.validate.errors.v =
               validate_business_rules(result.steps.transform.data.v)
        /\ Status("post_to_erp") = "pending"
        /\ Attempts = 0
        /\ ~result.success
        /\ Sealed
        /\ outcome = "returned"

\* C12: when the parser failed, parse is failed with the parser's text (naming
\* BEG when the BEG segment is missing), the other steps are pending, transform
\* has no data and overall success is false.
C12_ParseFailure ==
    (Handled /\ ~ParsedDocs[doc].ok) =>
        /\ Status("parse") = "failed"
        /\ result.steps.parse.error = ParsedDocs[doc].error
        /\ find_segment(split_segments(Docs[doc]), BEG_ID) = <<>> =>
             result.steps.parse.error =
                 "Failed to parse EDI 850: BEG segment not found or incomplete"
        /\ Status("transform") = "pending"
        /\ Status("validate") = "pending"
        /\ Status("post_to_erp") = "pending"
        /\ result.steps.transform.data = None
        /\ ~result.success

C12_Witness ==
    /\ outcome = "returned"
    /\ ~ParsedDocs[doc].ok
    /\ Status("parse") = "failed"
    /\ result.steps.parse.error =
           "Failed to parse EDI 850: BEG segment not found or incomplete"

\* The first line item of the parsed document has a non-numeric quantity.
BadQuantity(d) ==
    /\ ParsedDocs[d].ok
    /\ extract_vendor(ParsedDocs[d].data.n1_loops).vendor_id.some
    /\ ParsedDocs[d].data.po1_line_items # <<>>
    /\ ~FloatOk(ParsedDocs[d].data.po1_line_items[1].quantity)

\* C13: an exception inside transform() reaches the pipeline as one
\* TransformationError carrying the cause's text; its handler leaves parse
\* success, transform failed with that text, validate and submit pending and
\* overall success false, and nothing changes the steps afterwards.
C13_TransformFailure ==
    [][ /\ (pc = "transform" /\ ~MappedDocs[doc].ok) =>
             /\ pc' = "except"
             /\ exc'.kind = "TransformationError"
             /\ exc'.text = MappedDocs[doc].error
             /\ BadQuantity(doc) =>
                  exc'.text = "Failed to transform EDI to ERP schema: "
                              \o "could not convert string to float: '"
                              \o Join(ParsedDocs[doc].data.po1_line_items[1].quantity)
                              \o "'"
        /\ (pc = "except" /\ exc.kind = "TransformationError" /\ pc' # pc) =>
             /\ result'.steps.parse.status = "success"
             /\ result'.steps.transform.status = "failed"
             /\ result'.steps.transform.error = exc.text
             /\ result'.steps.validate.status = "pending"
             /\ result'.steps.post_to_erp.status = "pending"
             /\ ~result'.success
        /\ (Status("transform") = "failed" /\ ~MappedDocs[doc].ok
            /\ result.steps.transform.error = MappedDocs[doc].error) =>
             /\ result'.steps = result.steps
             /\ ~result'.success ]_vars

C13_Witness ==
    /\ outcome = "returned"
    /\ BadQuantity(doc)
    /\ Status("parse") = "success"
    /\ Status("transform") = "failed"
    /\ result.steps.transform.error =
           "Failed to transform EDI to ERP schema: could not convert string to float: 'x'"
    /\ Status("validate") = "pending"
    /\ Status("post_to_erp") = "pending"
    /\ ~result.success

\* C14: process_edi_file never raises: it ends by returning a sealed record in
\* which a failure is recorded as a failed step.
C14_NeverRaises ==
    pc = "done" =>
        /\ outcome = "returned"
        /\ Sealed
        /\ result.success \/ \E i \in 1..Len(StepNames) : Status(StepNames[i]) = "failed"

\* The documents that parse, transform and pass the business rules.
ValidDocs ==
    { d \in DocIds : /\ ParsedDocs[d].ok
                     /\ MappedDocs[d].ok
                     /\ validate_business_rules(MappedDocs[d].data) = <<>> }

\* The step statuses and the overall success of the record a run on document d
\* ends with when every store call succeeds and lc is its last downstream call.
RunAlone(d, lc) ==
    [ parse       |-> IF ParsedDocs[d].ok THEN "success" ELSE "failed",
      transform   |-> IF ~ParsedDocs[d].ok THEN "pending"
                      ELSE IF MappedDocs[d].ok THEN "success" ELSE "failed",
      validate    |-> IF ~MappedDocs[d].ok THEN "pending"
                      ELSE IF d \in ValidDocs THEN "success" ELSE "failed",
      post_to_erp |-> IF d \notin ValidDocs THEN "pending"
                      ELSE IF lc.ok THEN "success" ELSE "failed",
      success     |-> d \in ValidDocs /\ lc.ok ]

\* The statuses and the overall success of the record are those of RunAlone.
SameAsAlone ==
    /\ \A i \in 1..Len(StepNames) :
         Status(StepNames[i]) = RunAlone(doc, last_call)[StepNames[i]]
    /\ result.success = RunAlone(doc, last_call).success
    /\ doc \in ValidDocs => calls > 0

\* C15: store calls that raise neither block nor fail the run: it returns, with
\* the step statuses and the overall success it has with the store available.
C15_StoreFaultsContained ==
    pc = "done" => (outcome = "returned" /\ SameAsAlone)

\* Every store call that failed so far is a create_job_log.
OnlyLogFaults ==
    \A i \in 1..Len(store_calls) :
        ~store_calls[i].ok => store_calls[i].op = "create_job_log"

\* C16: when the only store calls that raise are create_job_log calls, no store
\* exception is ever in flight, and the run returns with the statuses, error
\* texts, attempt counter and overall success of a run without such failures.
C16_LogFaultsSwallowed ==
    (faults > 0 /\ OnlyLogFaults) =>
        /\ exc # StoreException
        /\ outcome # "raised"
        /\ Attempts = IF pc = "call" THEN calls + 1 ELSE calls
        /\ pc = "done" =>
             /\ SameAsAlone
             /\ result.steps.parse.error =
                  IF ParsedDocs[doc].ok THEN NoText ELSE ParsedDocs[doc].error
             /\ result.steps.transform.error =
                  IF ~ParsedDocs[doc].ok \/ MappedDocs[doc].ok
                  THEN NoText ELSE MappedDocs[doc].error
             /\ result.steps.validate.error = NoText
             /\ result.steps.post_to_erp.error =
                  IF doc \in ValidDocs /\ ~last_call.ok
                  THEN exhausted_error_msg(max_retries, last_call.error)
                  ELSE NoText

\* Two log writes failed in a run that ended in full success.
C16_Witness ==
    /\ pc = "done"
    /\ faults = 2
    /\ OnlyLogFaults
    /\ outcome = "returned"
    /\ result.success
    /\ AllSuccess

\* The step statuses of the five ways a run ends: full success, parse failure,
\* transform failure, validation rejection, exhausted retries.
TerminalOutcomes ==
    { <<"success", "success", "success", "success">>,
      <<"failed",  "pending", "pending", "pending">>,
      <<"success", "failed",  "pending", "pending">>,
      <<"success", "success", "failed",  "pending">>,
      <<"success", "success", "success", "failed">> }

\* C17: every run eventually ends by returning a sealed record in one of the
\* terminal outcomes, having made at most max_retries downstream calls.
C17_Terminates ==
    <>( /\ pc = "done"
        /\ outcome = "returned"
        /\ Sealed
        /\ [ i \in 1..Len(StepNames) |-> Status(StepNames[i]) ] \in TerminalOutcomes
        /\ result.success = AllSuccess
        /\ calls <= max_retries )

\* C18: a failed attempt k < max_retries is followed by attempt k + 1, whatever
\* the failure was (the failure text of the attempt is not constrained): the
\* loop is never left after such a failure.
C18_RetryOnAnyFailure ==
    /\ [](( /\ calls > 0
            /\ ~last_call.ok
            /\ last_call.attempt < max_retries )
          => ( /\ pc \in {"sleep", "submit", "call"}
               /\ last_call.attempt = calls ))
    /\ \A k \in 1..(MaxRetriesBound - 1) :
         ( /\ calls = k
           /\ k < max_retries
           /\ ~last_call.ok
           /\ last_call.attempt = k )
         ~> ( calls = k + 1 /\ last_call.attempt = k + 1 )

\* The second attempt follows a first one that was rejected as a duplicate.
C18_Witness ==
    /\ calls = 2
    /\ last_call.attempt = 2
    /\ last_error = "409: DUPLICATE_PO"
    /\ pc = "call"

\* A create_job_step for the step called name was issued.
StepIssued(name) ==
    \E i \in 1..Len(store_calls) :
        store_calls[i].op = "create_job_step" /\ store_calls[i].what = name

\* C19: with persistence, create_job is the first write of the job and is
\* issued once; the create_job_step of a stage is issued before the next stage
\* starts and before the run leaves the try statement; the final update_job
\* comes after every create_job_step.
C19_WritesOrdered ==
    db_service =>
        /\ pc # "start" => store_calls # <<>>
        /\ \A i \in 1..Len(store_calls) : (store_calls[i].op = "create_job") <=> (i = 1)
        /\ pc = "transform" => StepIssued("parse")
        /\ pc = "validate" => StepIssued("transform")
        /\ pc \in {"submit", "call", "sleep", "posted", "exhausted"} => StepIssued("validate")
        /\ Handled =>
             \A k \in 1..Len(StepNames) :
                 Status(StepNames[k]) # "pending" => StepIssued(StepNames[k])
        /\ \A i, j \in 1..Len(store_calls) :
             ( /\ store_calls[i].op = "update_job"
               /\ store_calls[i].what = "completed_at"
               /\ store_calls[j].op = "create_job_step" ) => j < i

C19_Witness ==
    /\ pc = "done"
    /\ db_service
    /\ AllSuccess
    /\ Len(FinalUpdates) = 1
    /\ \A k \in 1..Len(StepNames) : StepIssued(StepNames[k])

\* Every write the run r issued carries the job id of r.
OwnWrites(r) ==
    \A i \in 1..Len(r.store_calls) : r.store_calls[i].job = r.job_id

\* The record of r and the amounts it wrote come from the document of r.
OwnData(r) ==
    /\ r.result.steps.parse.data.some =>
         /\ ParsedDocs[r.doc].ok
         /\ r.result.steps.parse.data.v = ParsedDocs[r.doc].data
    /\ r.result.steps.transform.data.some =>
         /\ MappedDocs[r.doc].ok
         /\ r.result.steps.transform.data.v = MappedDocs[r.doc].data
    /\ r.result.steps.validate.errors.some =>
         r.result.steps.validate.errors.v = validate_business_rules(MappedDocs[r.doc].data)
    /\ \A i \in 1..Len(r.store_calls) :
         ( r.store_calls[i].op = "update_job" /\ r.store_calls[i].what = "total_amount" ) =>
             r.store_calls[i].status = Money(MappedDocs[r.doc].data.total_amount)

\* No store call of r raised into the pipeline.
StoreAvailable(r) ==
    \A i \in 1..Len(r.store_calls) :
        ~r.store_calls[i].ok => r.store_calls[i].op = "create_job_log"

\* The finished run r has the record it has when run alone.
AsAlone(r) ==
    (r.pc = "done" /\ StoreAvailable(r)) =>
        /\ r.outcome = "returned"
        /\ \A i \in 1..Len(StepNames) :
             r.result.steps[StepNames[i]].status = RunAlone(r.doc, r.last_call)[StepNames[i]]
        /\ r.result.success = RunAlone(r.doc, r.last_call).success
        /\ r.doc \in ValidDocs => r.calls > 0

\* C20: of two runs in progress at once, under every interleaving of their
\* steps, each has a job id of its own, issues writes that carry only that id,
\* holds only data of its own document, and ends with the record it produces
\* when run alone.
C20_RunsIndependent ==
    /\ job_id # peer.job_id
    /\ \A r \in {Self, peer} : OwnWrites(r) /\ OwnData(r) /\ AsAlone(r)

\* The second run got its response while the first one, on another document,
\* waits between two attempts.
C20_Witness ==
    /\ job_id = 2
    /\ pc = "posted"
    /\ peer.job_id = 1
    /\ peer.pc = "sleep"
    /\ doc # peer.doc
    /\ store_calls # <<>>
    /\ peer.store_calls # <<>>

\* C21: while a run waits between two submit attempts, another run started on
\* the same event loop and not yet finished can be resumed.
C21_WaitDoesNotBlock ==
    (pc = "sleep" /\ peer # NoPeer /\ peer.pc # "done") => YieldsControl


\* The number of elements a segment text has: one more than its element
\* delimiters.
ElementCount(text) == Cardinality({ i \in 1..Len(text) : text[i] = "*" }) + 1

\* The first occurrence of a required segment in an assembled document.
FirstOccurrence(ok, short, how) ==
    IF how \in {"ok", "ok_short"} THEN ok
    ELSE IF how \in {"short", "short_ok"} THEN short
    ELSE <<>>

\* The first occurrence exists and has at least n elements.
Sufficient(text, n) == text # <<>> /\ ElementCount(text) >= n

IsaSufficient(recipe) == Sufficient(FirstOccurrence(ISA_SEG, ISA_SHORT, recipe.isa), 17)
GsSufficient(recipe)  == Sufficient(FirstOccurrence(GS_SEG, GS_SHORT, recipe.gs), 9)
BegSufficient(recipe) == Sufficient(FirstOccurrence(BEG_SEG, BEG_SHORT, recipe.beg), 6)
CttSufficient(recipe) == Sufficient(FirstOccurrence(CTT_1, CTT_SHORT, recipe.ctt), 2)

ParsedDocumentKeys ==
    { "isa_header", "gs_header", "beg_segment", "ref_segments", "n1_loops",
      "po1_line_items", "ctt_segment", "control_numbers" }

Parsed == arg.fn = "parse" /\ ret.some

\* C22: parse returns a Parsed Document exactly when the first ISA, GS, BEG and
\* CTT segments each exist and have at least 17, 9, 6 and 2 elements; otherwise
\* it raises EDIParsingError and returns nothing of a document; a returned
\* document has every one of its parts.
C22_AllOrNothing ==
    Parsed =>
        /\ ret.v.ok <=> /\ IsaSufficient(arg.recipe)
                        /\ GsSufficient(arg.recipe)
                        /\ BegSufficient(arg.recipe)
                        /\ CttSufficient(arg.recipe)
        /\ ~ret.v.ok => DOMAIN ret.v = {"ok", "error"}
        /\ ret.v.ok => /\ DOMAIN ret.v = {"ok", "data"}
                       /\ DOMAIN ret.v.data = ParsedDocumentKeys

\* A document whose first totals segment is one element short, a complete
\* one following it, was refused; every other required segment is complete.
C22_Witness ==
    /\ Parsed
    /\ arg.recipe = [ isa |-> "ok", gs |-> "ok", beg |-> "ok", ctt |-> "short_ok" ]
    /\ ~ret.v.ok

\* The required segment a failure has to name: the first defective one in the
\* order ISA, GS, BEG, CTT ("" when none is defective).
FirstDefective(recipe) ==
    IF ~IsaSufficient(recipe) THEN "ISA"
    ELSE IF ~GsSufficient(recipe) THEN "GS"
    ELSE IF ~BegSufficient(recipe) THEN "BEG"
    ELSE IF ~CttSufficient(recipe) THEN "CTT"
    ELSE ""

\* C23: when required segments are missing or short, the EDIParsingError names
\* the first defective one in the order ISA, GS, BEG, CTT and nothing else,
\* with or without short REF, N1 and PO1 occurrences in the document; such
\* occurrences cause no error in a document whose required segments are
\* complete.
C23_FailFastOrder ==
    Parsed =>
        IF FirstDefective(arg.recipe) # ""
        THEN /\ ~ret.v.ok
             /\ ret.v.error = "Failed to parse EDI 850: " \o FirstDefective(arg.recipe)
                                \o " segment not found or incomplete"
        ELSE ret.v.ok

\* The group header is short, the PO header missing and the totals short, with
\* short REF, N1 and PO1 occurrences: the failure names the group header.
C23_Witness ==
    /\ Parsed
    /\ arg.recipe = [ isa |-> "ok", gs |-> "short", beg |-> "none", ctt |-> "short" ]
    /\ arg.occ = ShortRepeats
    /\ ~ret.v.ok
    /\ ret.v.error = "Failed to parse EDI 850: GS segment not found or incomplete"

\* The segment identifier of each occurrence and a field that tells the
\* occurrences of one identifier apart (reference number, name, line number).
OccurrenceKind ==
    [ REF_SEG |-> "REF", REF_LONG |-> "REF", REF_SHORT |-> "REF",
      N1_VN_SHORT |-> "N1", N1_ST |-> "N1", N1_BARE |-> "N1",
      PO1_A |-> "PO1", PO1_SEVEN |-> "PO1", PO1_SIX |-> "PO1" ]
OccurrenceKey ==
    [ REF_SEG |-> <<"4","2">>, REF_LONG |-> <<"7">>, REF_SHORT |-> <<>>,
      N1_VN_SHORT |-> <<"A","c","m","e">>, N1_ST |-> <<"D","o","c","k">>,
      N1_BARE |-> <<>>,
      PO1_A |-> <<"1">>, PO1_SEVEN |-> <<"2">>, PO1_SIX |-> <<"3">> ]

\* The keys of the occurrences of one identifier with at least n elements, in
\* the order of the document.
KeptKeys(occ, kind, n) ==
    LET kept == SelectSeq(occ, LAMBDA o : /\ OccurrenceKind[o] = kind
                                          /\ ElementCount(OccurrenceText[o]) >= n)
    IN  [ i \in 1..Len(kept) |-> OccurrenceKey[kept[i]] ]

\* C24: in a document whose required segments are complete, REF, N1 and PO1
\* occurrences with fewer than 3, 3 and 7 elements are dropped without error,
\* every other occurrence is kept, and the kept ones are in source order.
C24_RepeatablesTolerated ==
    (Parsed /\ arg.recipe = AllPresent) =>
        /\ ret.v.ok
        /\ [ i \in 1..Len(ret.v.data.ref_segments) |->
               ret.v.data.ref_segments[i].reference_number ]
           = KeptKeys(arg.occ, "REF", 3)
        /\ [ i \in 1..Len(ret.v.data.n1_loops) |-> ret.v.data.n1_loops[i].name ]
           = KeptKeys(arg.occ, "N1", 3)
        /\ [ i \in 1..Len(ret.v.data.po1_line_items) |->
               ret.v.data.po1_line_items[i].line_number ]
           = KeptKeys(arg.occ, "PO1", 7)

\* A short REF between two complete ones was dropped and the two were kept in
\* the order of the document.
C24_Witness ==
    /\ Parsed
    /\ arg.occ = <<"REF_LONG", "REF_SHORT", "REF_SEG">>
    /\ ret.v.ok
    /\ Len(ret.v.data.ref_segments) = 2
    /\ ret.v.data.ref_segments[1].reference_number = <<"7">>
    /\ ret.v.data.ref_segments[2].reference_number = <<"4","2">>


Tokenized == arg.fn = "split_segments" /\ ret.some

\* A text without leading or trailing whitespace.
Trimmed(s) == s = <<>> \/ (~IsSpace(s[1]) /\ ~IsSpace(s[Len(s)]))

\* A segment that is empty or made of whitespace only.
Blank(seg) == seg = <<>> \/ (Len(seg) = 1 /\ strip(seg[1]) = <<>>)

\* The segments of a text in order, each as its trimmed elements in order: the
\* text is trimmed and cut at the segment delimiter, blank pieces are
\* discarded, each remaining piece is cut at the element delimiter.
TrimmedTokens(text) ==
    LET pieces == SelectSeq(split(strip(text), "~"), LAMBDA s : strip(s) # <<>>)
    IN  [ i \in 1..Len(pieces) |->
            LET elements == split(strip(pieces[i]), "*")
            IN  [ j \in 1..Len(elements) |-> strip(elements[j]) ] ]

\* C25: on every text the tokenizer returns a sequence of segments in the
\* order of the text, none of them empty or blank, and every element of every
\* segment, the identifier (element 0) included, has no leading or trailing
\* whitespace.
C25_TokenizerTrims ==
    Tokenized =>
        /\ \A i \in 1..Len(ret.v) : ~Blank(ret.v[i])
        /\ \A i \in 1..Len(ret.v) : \A j \in 1..Len(ret.v[i]) : Trimmed(ret.v[i][j])
        /\ ret.v = TrimmedTokens(arg.input)


Transformed == arg.fn = "transform" /\ ret.some

\* The quantity and unit price written in each line item segment, in
\* hundredths.
ItemFacts ==
    [ PO1_A     |-> [ quantity |-> 200, unit_price |-> 350 ],
      PO1_B     |-> [ quantity |-> 100, unit_price |-> 25 ],
      PO1_ROUND |-> [ quantity |-> 130, unit_price |-> 6 ] ]

\* t hundredths is quantity x unit_price (both in hundredths) rounded to the
\* nearest hundredth.
NearestHundredth(t, quantity, unit_price) ==
    /\ 100 * t - quantity * unit_price <= 50
    /\ quantity * unit_price - 100 * t <= 50

RECURSIVE TotalOf(_)
TotalOf(line_items) ==
    IF line_items = <<>> THEN 0
    ELSE line_items[1].total_price + TotalOf(Tail(line_items))

\* C26: in every payload the mapper produces, each line item carries the
\* quantity and unit price of its PO1 segment and their product rounded to two
\* decimals as total_price, and total_amount is the sum of the total_price
\* values, whatever the CTT segment of the document says.
C26_TotalsRecomputed ==
    (Transformed /\ ret.v.ok) =>
        /\ Len(ret.v.data.line_items) = Len(arg.items)
        /\ \A i \in 1..Len(ret.v.data.line_items) :
              LET item == ret.v.data.line_items[i] IN
              /\ item.quantity = ItemFacts[arg.items[i]].quantity
              /\ item.unit_price = ItemFacts[arg.items[i]].unit_price
              /\ NearestHundredth(item.total_price, item.quantity, item.unit_price)
        /\ ret.v.data.total_amount = TotalOf(ret.v.data.line_items)

\* 1.3 x 0.06 = 0.078 became 0.08 and 2 x 3.50 became 7.00; the total is 7.08
\* although the CTT segment carries the hash total 999.
C26_Witness ==
    /\ Transformed
    /\ ret.v.ok
    /\ arg.items = <<"PO1_ROUND", "PO1_A">>
    /\ arg.totals = "CTT_DECLARED"
    /\ arg.input.ctt_segment.hash_total = Some(<<"9","9","9">>)
    /\ ret.v.data.line_items[1].total_price = 8
    /\ ret.v.data.total_amount = 708

\* The texts rule 3 of the validator can produce.
MismatchMessages ==
    { "Line items count mismatch: expected " \o ToString(a) \o ", got " \o ToString(b) :
        a \in 0..9, b \in 0..9 }

\* C27: in every payload the mapper produces, total_lines is the number of
\* line items whatever count the CTT segment declares, and the validator
\* reports no line items count mismatch on it.
C27_TotalLinesIsLength ==
    (Transformed /\ ret.v.ok) =>
        /\ ret.v.data.total_lines = Len(ret.v.data.line_items)
        /\ ret.v.data.total_lines = Len(arg.items)
        /\ LET errors == validate_business_rules(ret.v.data)
           IN  \A i \in 1..Len(errors) : errors[i] \notin MismatchMessages

\* The CTT segment declares five line items, the document has two.
C27_Witness ==
    /\ Transformed
    /\ ret.v.ok
    /\ arg.input.ctt_segment.line_item_count = <<"5">>
    /\ Len(arg.input.po1_line_items) = 2
    /\ ret.v.data.total_lines = 2

\* The role code, name and identification code written in each loop segment.
LoopFacts ==
    [ N1_VN       |-> [ code |-> "VN", name |-> <<"A","c","m","e">>,
                        id |-> Some(<<"V","1">>) ],
      N1_VN2      |-> [ code |-> "VN", name |-> <<"B","o","l","t">>,
                        id |-> Some(<<"V","2">>) ],
      N1_VN_SHORT |-> [ code |-> "VN", name |-> <<"A","c","m","e">>, id |-> None ],
      N1_ST       |-> [ code |-> "ST", name |-> <<"D","o","c","k">>,
                        id |-> Some(<<"S","1">>) ],
      N1_ST2      |-> [ code |-> "ST", name |-> <<"P","i","e","r">>,
                        id |-> Some(<<"S","2">>) ] ]

\* The loops of a document that have the given role code, in source order.
WithRole(loops, code) == SelectSeq(loops, LAMBDA n : LoopFacts[n].code = code)

\* C28: the vendor of a payload is the first loop with role code VN and the
\* ship-to the first with role code ST; without a VN loop the mapper does not
\* fail and the vendor is (UNKNOWN, Unknown Vendor); without an ST loop the
\* ship-to has no id and the name Unknown Location.
C28_FirstLoopWins ==
    Transformed =>
        LET vns == WithRole(arg.loops, "VN")
            sts == WithRole(arg.loops, "ST")
        IN  /\ (vns = <<>> \/ LoopFacts[vns[1]].id.some) => ret.v.ok
            /\ ret.v.ok =>
                 /\ ret.v.data.vendor =
                       IF vns = <<>>
                       THEN [ vendor_id |-> <<"U","N","K","N","O","W","N">>,
                              vendor_name |->
                                <<"U","n","k","n","o","w","n"," ","V","e","n","d","o","r">> ]
                       ELSE [ vendor_id |-> LoopFacts[vns[1]].id.v,
                              vendor_name |-> LoopFacts[vns[1]].name ]
                 /\ ret.v.data.ship_to =
                       IF sts = <<>>
                       THEN [ location_id |-> None,
                              location_name |->
                                <<"U","n","k","n","o","w","n"," ","L","o","c","a","t","i","o","n">> ]
                       ELSE [ location_id |-> LoopFacts[sts[1]].id,
                              location_name |-> LoopFacts[sts[1]].name ]

\* Two vendor loops around a ship-to loop: the first vendor was taken.
C28_Witness ==
    /\ Transformed
    /\ arg.loops = <<"N1_VN2", "N1_ST", "N1_VN">>
    /\ ret.v.ok
    /\ ret.v.data.vendor.vendor_name = <<"B","o","l","t">>
    /\ ret.v.data.ship_to.location_name = <<"D","o","c","k">>


Validated == arg.fn = "validate" /\ ret.some

\* The checks of rule 4 on the line item at position i (1-indexed), in order.
ItemChecks(payload, i) ==
    LET item == payload.line_items[i]
        line == "Line " \o ToString(i)
    IN  << [ violated |-> ~(item.quantity > 0),
             text |-> line \o ": Quantity must be greater than zero" ],
           [ violated |-> ~(item.unit_price >= 0),
             text |-> line \o ": Unit price cannot be negative" ],
           [ violated |-> ~(item.total_price >= 0),
             text |-> line \o ": Total price cannot be negative" ] >>

RECURSIVE ItemChecksFrom(_, _)
ItemChecksFrom(payload, i) ==
    IF i > Len(payload.line_items) THEN <<>>
    ELSE ItemChecks(payload, i) \o ItemChecksFrom(payload, i + 1)

\* The seven rules in their fixed order, each with whether the payload violates
\* it and the message that reports it.
RuleChecks(payload) ==
    << [ violated |-> ~(payload.total_amount > 0),
         text |-> "Total amount must be greater than zero" ],
       [ violated |-> ~(payload.total_lines >= 1),
         text |-> "Purchase order must contain at least one line item" ],
       [ violated |-> Len(payload.line_items) # payload.total_lines,
         text |-> "Line items count mismatch: expected "
                  \o ToString(payload.total_lines) \o ", got "
                  \o ToString(Len(payload.line_items)) ] >>
    \o ItemChecksFrom(payload, 1)
    \o << [ violated |-> payload.vendor.vendor_name
                           \in { <<>>, <<"U","n","k","n","o","w","n"," ","V","e","n","d","o","r">> },
            text |-> "Valid vendor information is required" ],
          [ violated |-> payload.ship_to.location_name
                           \in { <<>>, <<"U","n","k","n","o","w","n"," ","L","o","c","a","t","i","o","n">> },
            text |-> "Valid ship-to location is required" ],
          [ violated |-> \A k \in 1..Len(payload.po_number) : IsSpace(payload.po_number[k]),
            text |-> "Purchase order number is required" ] >>

\* C29: for every payload the validator returns one message for each violated
\* check and no other (rule 4 per line item, 1-indexed), in the order rule 1
\* to rule 7; the list is empty exactly when no rule is violated.
C29_AllRulesInOrder ==
    Validated =>
        LET violations == SelectSeq(RuleChecks(arg.input), LAMBDA c : c.violated)
        IN  /\ ret.v = [ i \in 1..Len(violations) |-> violations[i].text ]
            /\ ret.v = <<>> <=>
                  \A i \in 1..Len(RuleChecks(arg.input)) : ~RuleChecks(arg.input)[i].violated

\* A payload violating rule 1, rule 4 on both of its line items and rule 7:
\* all are reported, in rule order.
C29_Witness ==
    /\ Validated
    /\ arg.input.total_amount = 0
    /\ Len(arg.input.line_items) = 2
    /\ ret.v = << "Total amount must be greater than zero",
                  "Line 1: Quantity must be greater than zero",
                  "Line 2: Unit price cannot be negative",
                  "Line 2: Total price cannot be negative",
                  "Purchase order number is required" >>

\* Every rule but rule 1 is satisfied.
OtherRulesSatisfied(payload) ==
    \A i \in 2..Len(RuleChecks(payload)) : ~RuleChecks(payload)[i].violated

\* C30: a payload with total_amount = 0 that satisfies every other rule gets
\* exactly one violation, the one of the total amount rule; a payload whose
\* total_lines differs from the number of line items, or whose PO number is
\* empty, gets a non-empty list.
C30_TestedRejections ==
    Validated =>
        /\ (arg.input.total_amount = 0 /\ OtherRulesSatisfied(arg.input))
              => ret.v = <<"Total amount must be greater than zero">>
        /\ arg.input.total_lines # Len(arg.input.line_items) => ret.v # <<>>
        /\ arg.input.po_number = <<>> => ret.v # <<>>

\* The payload of the first document with total_amount set to 0 got the one
\* violation.
C30_Witness ==
    /\ Validated
    /\ arg.input = [ BasePayload EXCEPT !.total_amount = 0 ]
    /\ validate_business_rules(BasePayload) = <<>>
    /\ ret.v = <<"Total amount must be greater than zero">>


\* The document d has every required segment and no line item.
ZeroItems(d) == ParsedDocs[d].ok /\ ParsedDocs[d].data.po1_line_items = <<>>

\* C31: a document with all required segments and no line item parses and
\* maps, with total_lines = 0 and total_amount = 0; the validator rejects the
\* payload, rule 2 among the violations; the run ends by returning a record
\* with parse and transform success, validate failed, submit pending and
\* overall success false.
C31_EmptyOrderRejected ==
    ZeroItems(doc) =>
        /\ MappedDocs[doc].ok
        /\ MappedDocs[doc].data.total_lines = 0
        /\ MappedDocs[doc].data.total_amount = 0
        /\ \E i \in 1..Len(validate_business_rules(MappedDocs[doc].data)) :
              validate_business_rules(MappedDocs[doc].data)[i]
                  = "Purchase order must contain at least one line item"
        /\ pc = "done" =>
              /\ outcome = "returned"
              /\ Status("parse") = "success"
              /\ Status("transform") = "success"
              /\ Status("validate") = "failed"
              /\ Status("post_to_erp") = "pending"
              /\ ~result.success


\* Both runs were given the same raw document.
SameInput == peer # NoPeer /\ peer.doc = doc

Formatted == arg.fn = "format_date" /\ ret.some

\* C33: a date text of 8 characters d becomes d[0:4]-d[4:6]-d[6:8], whatever
\* its characters ("20240115" becomes "2024-01-15"); a text of any other
\* length, the empty one and an already formatted date of 10 characters
\* included, is returned unchanged.
C33_DateByLength ==
    Formatted =>
        /\ Len(arg.input) = 8 =>
              /\ Len(ret.v) = 10
              /\ \A i \in 1..4 : ret.v[i] = arg.input[i]
              /\ ret.v[5] = "-"
              /\ \A i \in 5..6 : ret.v[i + 1] = arg.input[i]
              /\ ret.v[8] = "-"
              /\ \A i \in 7..8 : ret.v[i + 2] = arg.input[i]
        /\ Len(arg.input) # 8 => ret.v = arg.input
        /\ arg.input = <<"2","0","2","4","0","1","1","5">> =>
              ret.v = <<"2","0","2","4","-","0","1","-","1","5">>

\* The already formatted date went through unchanged.
C33_Witness ==
    /\ Formatted
    /\ arg.input = <<"2","0","2","4","-","0","1","-","1","5">>
    /\ ret.v = arg.input


\* C34: a returned record whose four steps are all success has overall success
\* true and the downstream response as final_result.
C34_AllStepsMeanSuccess ==
    (pc = "done" /\ outcome = "returned" /\ AllSuccess) =>
        /\ result.success
        /\ result.final_result.some
        /\ result.final_result = result.steps.post_to_erp.data


\* C35: in every returned record the submit step has attempts = 0 exactly when
\* it is pending, and when it is success or failed its attempts are between 1
\* and max_retries.
C35_AttemptsMatchStatus ==
    (pc = "done" /\ outcome = "returned") =>
        /\ Attempts = 0 <=> Status("post_to_erp") = "pending"
        /\ Status("post_to_erp") \in {"success", "failed"} =>
              (1 <= Attempts /\ Attempts <= max_retries)


\* The create_job_step calls of the run, in the order they were issued.
StepCalls == SelectSeq(store_calls, LAMBDA c : c.op = "create_job_step")

\* The steps of the record that left pending, in pipeline order.
StepsLeftPending == SelectSeq(StepNames, LAMBDA name : Status(name) # "pending")

\* C36: with persistence enabled and no store call raising into the pipeline,
\* the create_job_step calls of a finished run are, in pipeline order, exactly
\* the steps of the returned record that left pending, one call each, with the
\* status of the record and, for post_to_erp, its attempts; retry exhaustion
\* therefore leaves one failed post_to_erp call.
C36_StepCallsMirrorRecord ==
    (pc = "done" /\ db_service /\ StoreAvailable(Self)) =>
        /\ outcome = "returned"
        /\ Len(StepCalls) = Len(StepsLeftPending)
        /\ \A k \in 1..Len(StepCalls) :
             k <= Len(StepsLeftPending) =>
                /\ StepCalls[k].what = StepsLeftPending[k]
                /\ StepCalls[k].status = Status(StepsLeftPending[k])
                /\ StepsLeftPending[k] = "post_to_erp" => StepCalls[k].attempts = Attempts

C36_Witness ==
    /\ pc = "done"
    /\ db_service
    /\ StoreAvailable(Self)
    /\ Status("post_to_erp") = "failed"
    /\ max_retries > 1
    /\ Attempts = max_retries
    /\ Len(StepCalls) = 4
    /\ StepCalls[4].status = "failed"


\* The run is inside or past the retry loop of _post_to_erp_with_retry.
ReachedSubmit == pc \in {"submit", "call", "sleep", "posted", "exhausted"} \/ calls > 0

\* C37: the payload that passed the validate step has no rule violation, so
\* the in-process create_purchase_order accepts it: the first downstream call
\* is the only one and is accepted, and the run ends with post_to_erp success
\* and attempts = 1.
C37_GateAgreesWithEndpoint ==
    (in_process /\ ReachedSubmit) =>
        /\ Status("validate") = "success"
        /\ validate_business_rules(result.steps.transform.data.v) = <<>>
        /\ \A suffix \in ErpIdSuffixes :
             create_purchase_order(result.steps.transform.data.v, suffix).ok
        /\ pc \notin {"sleep", "exhausted"}
        /\ calls <= 1
        /\ calls = 1 => (last_call.ok /\ last_call.attempt = 1)
        /\ pc = "done" =>
             /\ calls = 1
             /\ Status("post_to_erp") = "success"
             /\ Attempts = 1

C37_Witness ==
    /\ in_process
    /\ pc = "done"
    /\ max_retries > 1
    /\ calls = 1
    /\ last_call.ok
    /\ Status("post_to_erp") = "success"
    /\ Attempts = 1


\* C38: when the first VN loop of the parsed document has no identification
\* code, transform succeeds and the vendor is ("UNKNOWN", that loop's name).
C38_VendorIdDefaults ==
    Transformed =>
        LET vns == WithRole(arg.loops, "VN")
        IN  (vns # <<>> /\ ~LoopFacts[vns[1]].id.some) =>
                /\ ret.v.ok
                /\ ret.v.data.vendor =
                      [ vendor_id   |-> <<"U","N","K","N","O","W","N">>,
                        vendor_name |-> LoopFacts[vns[1]].name ]

====
